---- MODULE Spec2Model ----
(***************************************************************************)
(* Financial data management system: the CSV reconciliation pipeline       *)
(* (backend/routes/data-loader), the storage helper (config/database), the *)
(* client administration (models/Client, routes/clients) and the MySQL     *)
(* schema (database/schema.sql).                                           *)
(*                                                                         *)
(* Every executeQuery call is one await, hence one atomic step of the      *)
(* model; the synchronous JavaScript that follows an await up to the next  *)
(* await belongs to the same step.                                         *)
(***************************************************************************)
EXTENDS Integers, Sequences, FiniteSets, TLC

(***************************************************************************)
(* Bounds of the model.                                                    *)
(***************************************************************************)
\* inputs handed to the server, over all requests: the rows of the uploads
\* and the bodies of the POST /api/clients requests
MaxInputs == 2

(***************************************************************************)
(* JavaScript values.  Numbers that may be undefined or NaN are tagged     *)
(* records; texts are strings, "" being the empty CSV cell.                *)
(***************************************************************************)
Undefined == [t |-> "undefined"]

NaN == [t |-> "NaN"]

Num(n) == [t |-> "number", v |-> n]

IsNum(x) == x.t = "number"

Null == "<null>"

\* obj.name in JavaScript: undefined when the object has no such property
Prop(obj, name) == IF name \in DOMAIN obj THEN obj[name] ELSE Undefined

\* a > b in JavaScript for a number b: false when a is undefined or NaN
JsGt(a, b) == IF IsNum(a) THEN a.v > b ELSE FALSE

\* s || null
OrNull(s) == IF s = "" THEN Null ELSE s

(***************************************************************************)
(* parseFloat over a string given as a sequence of characters: the value   *)
(* of the longest prefix of decimal digits, NaN when there is none.        *)
(***************************************************************************)
DigitChars == {"0", "1", "2", "3", "4", "5", "6", "7", "8", "9"}

DigitVal(c) ==
    CASE c = "0" -> 0 [] c = "1" -> 1 [] c = "2" -> 2 [] c = "3" -> 3
      [] c = "4" -> 4 [] c = "5" -> 5 [] c = "6" -> 6 [] c = "7" -> 7
      [] c = "8" -> 8 [] c = "9" -> 9

RECURSIVE DigitPrefix(_, _)
DigitPrefix(s, acc) ==
    IF s = <<>> \/ Head(s) \notin DigitChars
    THEN acc
    ELSE DigitPrefix(Tail(s), 10 * acc + DigitVal(Head(s)))

parseFloat(s) ==
    IF s = <<>> \/ Head(s) \notin DigitChars
    THEN NaN
    ELSE Num(DigitPrefix(s, 0))

isNaN(x) == x.t # "number"

(***************************************************************************)
(* Input rows.  A row is a record of CSV cells; the optional contact       *)
(* fields phone, address, city and department are handled by the code      *)
(* exactly like email without its UNIQUE constraint and are left out, as   *)
(* are billing_period, transaction_date and transaction_type, which are    *)
(* copied like the status fields.                                          *)
(***************************************************************************)
BaseRow ==
    [client_code |-> "C1", first_name |-> "Ana", last_name |-> "Diaz",
     email |-> "", invoice_number |-> "I1", total_amount |-> <<"5">>,
     paid_amount |-> <<"5">>, invoice_status |-> "PAID",
     transaction_reference |-> "T1", transaction_amount |-> <<"5">>,
     transaction_status |-> "COMPLETED", platform_name |-> "Nequi"]

\* rows of the batches: valid rows over two clients, two invoices, two
\* transactions, a seeded and an unseeded platform, and defective rows
ValidRows ==
    { [BaseRow EXCEPT !.first_name = "Bob", !.platform_name = "NewPay"],
      BaseRow,
      [BaseRow EXCEPT !.client_code = "C2", !.invoice_number = "I2",
                      !.transaction_reference = "T2", !.email = "a@x",
                      !.transaction_amount = <<>>] }

DefectRows ==
    { [BaseRow EXCEPT !.client_code = "", !.invoice_number = ""],
      [BaseRow EXCEPT !.total_amount = <<"a">>] }

Rows == ValidRows \cup DefectRows

\* every row over presence or absence of the required cells and over the
\* amount cells
AllRows ==
    { [BaseRow EXCEPT !.client_code = f[1], !.first_name = f[2],
                      !.last_name = f[3], !.invoice_number = f[4],
                      !.transaction_reference = f[5], !.platform_name = f[6],
                      !.total_amount = a[1], !.paid_amount = a[2],
                      !.transaction_amount = a[3]] :
        f \in { <<c, fn, ln, i, t, p>> :
                 c \in {"", "C1"}, fn \in {"", "Ana"}, ln \in {"", "Diaz"},
                 i \in {"", "I1"}, t \in {"", "T1"}, p \in {"", "Nequi"} },
        a \in { <<x, y, z>> : x \in {<<"5">>, <<"a">>}, y \in {<<>>, <<"5">>},
                              z \in {<<"5">>, <<"5", "a">>} } }

\* the row of an importer that has not read one
BlankRow ==
    [client_code |-> "", first_name |-> "", last_name |-> "", email |-> "",
     invoice_number |-> "", total_amount |-> <<>>, paid_amount |-> <<>>,
     invoice_status |-> "", transaction_reference |-> "",
     transaction_amount |-> <<>>, transaction_status |-> "",
     platform_name |-> ""]

(***************************************************************************)
(* validateRow: the defects of a row, in the order the code pushes them.   *)
(***************************************************************************)
Defect(rowNumber, msg) == [row |-> rowNumber, msg |-> msg]

\* validateRow without its check of platform_name
validateRowNoPlatform(data, rowNumber) ==
    (IF data.client_code = "" \/ data.first_name = "" \/ data.last_name = ""
     THEN <<Defect(rowNumber, "Missing required client information")>>
     ELSE <<>>)
    \o (IF data.invoice_number = ""
        THEN <<Defect(rowNumber, "Missing invoice number")>> ELSE <<>>)
    \o (IF data.transaction_reference = ""
        THEN <<Defect(rowNumber, "Missing transaction reference")>> ELSE <<>>)
    \o (IF data.total_amount # <<>> /\ isNaN(parseFloat(data.total_amount))
        THEN <<Defect(rowNumber, "Invalid total amount")>> ELSE <<>>)
    \o (IF data.paid_amount # <<>> /\ isNaN(parseFloat(data.paid_amount))
        THEN <<Defect(rowNumber, "Invalid paid amount")>> ELSE <<>>)
    \o (IF data.transaction_amount # <<>>
           /\ isNaN(parseFloat(data.transaction_amount))
        THEN <<Defect(rowNumber, "Invalid transaction amount")>> ELSE <<>>)

validateRow(data, rowNumber) ==
    (IF data.client_code = "" \/ data.first_name = "" \/ data.last_name = ""
     THEN <<Defect(rowNumber, "Missing required client information")>>
     ELSE <<>>)
    \o (IF data.invoice_number = ""
        THEN <<Defect(rowNumber, "Missing invoice number")>> ELSE <<>>)
    \o (IF data.transaction_reference = ""
        THEN <<Defect(rowNumber, "Missing transaction reference")>> ELSE <<>>)
    \o (IF data.platform_name = ""
        THEN <<Defect(rowNumber, "Missing platform name")>> ELSE <<>>)
    \o (IF data.total_amount # <<>> /\ isNaN(parseFloat(data.total_amount))
        THEN <<Defect(rowNumber, "Invalid total amount")>> ELSE <<>>)
    \o (IF data.paid_amount # <<>> /\ isNaN(parseFloat(data.paid_amount))
        THEN <<Defect(rowNumber, "Invalid paid amount")>> ELSE <<>>)
    \o (IF data.transaction_amount # <<>>
           /\ isNaN(parseFloat(data.transaction_amount))
        THEN <<Defect(rowNumber, "Invalid transaction amount")>> ELSE <<>>)

(***************************************************************************)
(* The store: the four tables of database/schema.sql as sets of records,   *)
(* and the AUTO_INCREMENT counter of each table.                           *)
(***************************************************************************)
VARIABLES clients, invoices, platforms, transactions, autoinc

(***************************************************************************)
(* processCSVData invocations.  Each importer runs one invocation at a     *)
(* time: pc is its position, dataLength the number of rows it was given,   *)
(* idx the loop variable i, row the element data[i] the loop has read      *)
(* last (the input array is read once per index, in order, and the model   *)
(* draws each element when the loop reads it), stats its statistics        *)
(* object, res the result of the last awaited executeQuery, and            *)
(* clientResult, invoiceResult and platformId the locals of those names.   *)
(***************************************************************************)
VARIABLES pc, dataLength, idx, row, stats, res, clientResult, invoiceResult,
          platformId

(***************************************************************************)
(* History.  inputsLeft is what is left of the MaxInputs inputs,           *)
(* queryErrors holds the row numbers for which executeQuery logged a       *)
(* failure during the current invocation, outage tells whether one of      *)
(* them was the storage being unreachable, visited lists the indices the   *)
(* loop has taken, atStart is the store as the current invocation found    *)
(* it, and lastRun is the input and result of the importer's previous      *)
(* invocation when that was one valid row, the storage was reachable       *)
(* throughout and nobody else wrote to the store since.                    *)
(***************************************************************************)
VARIABLES inputsLeft, queryErrors, outage, visited, atStart, lastRun

(***************************************************************************)
(* POST /api/clients requests: reqPc is the position of a request, reqBody *)
(* its body, reqResult the insertId its INSERT returned, reqStatus the     *)
(* status of the last response sent on that connection.                    *)
(***************************************************************************)
VARIABLES reqPc, reqBody, reqResult, reqStatus

(***************************************************************************)
(* GET /api/queries requests: report is the last response of the three     *)
(* report routes, together with the store the query was evaluated on.      *)
(***************************************************************************)
VARIABLE report

requests == <<reqPc, reqBody, reqResult, reqStatus, report>>

(***************************************************************************)
(* dbUp: the MySQL server is reachable; pool.execute rejects when not.     *)
(***************************************************************************)
VARIABLE dbUp

(***************************************************************************)
(* executeTransaction: tx is the one call under way, with its position,    *)
(* its queries, the index of the statement it is at, the rows written on   *)
(* its connection and not committed, whether its connection is alive, how  *)
(* often a connection was taken and released, whether one of its           *)
(* statements was rejected, and how the call ended.                        *)
(***************************************************************************)
VARIABLE tx

store == <<clients, invoices, platforms, transactions, autoinc>>

locals ==
    <<pc, dataLength, idx, row, stats, res, clientResult, invoiceResult,
      platformId>>

history == <<inputsLeft, queryErrors, outage, visited, atStart, lastRun>>

vars == <<store, locals, history, requests, dbUp, tx>>

Importers == {1, 2}

Requests == {1, 2}

(***************************************************************************)
(* schema.sql: the seeded platforms, and the constraints of the tables.    *)
(***************************************************************************)
SeedPlatforms ==
    { [platform_id |-> 1, platform_name |-> "Nequi",
       platform_type |-> "DIGITAL_WALLET", is_active |-> TRUE],
      [platform_id |-> 2, platform_name |-> "Daviplata",
       platform_type |-> "DIGITAL_WALLET", is_active |-> TRUE],
      [platform_id |-> 3, platform_name |-> "Bancolombia",
       platform_type |-> "BANK", is_active |-> TRUE],
      [platform_id |-> 4, platform_name |-> "Banco de Bogota",
       platform_type |-> "BANK", is_active |-> TRUE],
      [platform_id |-> 5, platform_name |-> "BBVA Colombia",
       platform_type |-> "BANK", is_active |-> TRUE] }

\* clients without the UNIQUE constraint on client_code
AnyClientCode(code) == TRUE

\* client_code VARCHAR(20) NOT NULL UNIQUE
UniqueClientCode(code) == \A c \in clients : c.client_code # code

\* email VARCHAR(150) UNIQUE: any number of NULLs, no two equal addresses
UniqueEmail(email) == email = Null \/ \A c \in clients : c.email # email

\* invoice_number VARCHAR(50) NOT NULL UNIQUE
UniqueInvoiceNumber(number) == \A i \in invoices : i.invoice_number # number

\* transaction_reference VARCHAR(100) NOT NULL UNIQUE
UniqueTransactionReference(ref) ==
    \A t \in transactions : t.transaction_reference # ref

\* platform_name VARCHAR(50) NOT NULL UNIQUE
UniquePlatformName(name) == \A q \in platforms : q.platform_name # name

\* FOREIGN KEY (client_id) REFERENCES clients(client_id)
ClientExists(id) == IsNum(id) /\ \E c \in clients : c.client_id = id.v

\* FOREIGN KEY (invoice_id) REFERENCES invoices(invoice_id)
InvoiceExists(id) == IsNum(id) /\ \E i \in invoices : i.invoice_id = id.v

\* FOREIGN KEY (platform_id) REFERENCES platforms(platform_id)
PlatformExists(id) == IsNum(id) /\ \E q \in platforms : q.platform_id = id.v

\* invoices without ON DELETE CASCADE
NoCascadeInvoices(removedClients) == invoices

\* ON DELETE CASCADE of invoices.client_id
CascadeInvoices(removedClients) ==
    { i \in invoices : i.client_id \notin removedClients }

\* transactions without ON DELETE CASCADE on invoice_id
NoCascadeTransactions(keptInvoices) == transactions

\* ON DELETE CASCADE of transactions.invoice_id
CascadeTransactions(keptInvoices) ==
    { t \in transactions :
        t.invoice_id \in { i.invoice_id : i \in keptInvoices } }

(***************************************************************************)
(* config/database: executeQuery.  pool.execute either resolves with the   *)
(* rows (or the result header) of the statement or rejects; executeQuery   *)
(* turns both into a result object and never throws.                       *)
(***************************************************************************)
\* executeQuery without its try and catch: the rejection of pool.execute
\* reaches the caller
executeQueryThrowing(resolved, rows, message) ==
    IF resolved
    THEN [success |-> TRUE, data |-> rows]
    ELSE [thrown |-> message]

executeQuery(resolved, rows, message) ==
    IF resolved
    THEN [success |-> TRUE, data |-> rows]
    ELSE [success |-> FALSE, error |-> message]

\* the header pool.execute resolves with for an INSERT
ResultSetHeader(id) == [insertId |-> Num(id), affectedRows |-> Num(1)]

NoResult == [success |-> FALSE, error |-> ""]

(***************************************************************************)
(* routes/data-loader: processCSVData and its three resolvers.             *)
(***************************************************************************)
ZeroStats ==
    [clients_processed |-> 0, clients_created |-> 0, clients_updated |-> 0,
     invoices_processed |-> 0, invoices_created |-> 0, invoices_updated |-> 0,
     transactions_processed |-> 0, transactions_created |-> 0,
     transactions_updated |-> 0, errors |-> <<>>]

NoRun == [data |-> <<>>, stats |-> ZeroStats]

\* the resolvers' results before they are assigned
NoClient == [clientId |-> Undefined, created |-> FALSE]

NoInvoice == [invoiceId |-> Undefined, created |-> FALSE]

\* the row number without the header line
RowNumberFromOne(p) == idx[p] + 1

\* const rowNumber = i + 2
RowNumber(p) == idx[p] + 2

\* the message of the error pool.execute rejects with
Rejection(up, bound) ==
    IF ~up THEN "connect ECONNREFUSED"
    ELSE IF ~bound THEN "Bind parameters must not contain undefined"
    ELSE "constraint violation"

\* existing.length > 0, as the resolvers test the result of their SELECT
Found(existing) == JsGt(Prop(existing, "length"), 0)

\* existing[0], the first row the resolvers read after a successful test
First(existing) == Prop(existing, "0")

\* the store, as one value
Snapshot ==
    [clients |-> clients, invoices |-> invoices, platforms |-> platforms,
     transactions |-> transactions, autoinc |-> autoinc]

\* no invocation is running: there is no store it started on
NoSnapshot ==
    [clients |-> {}, invoices |-> {}, platforms |-> {}, transactions |-> {},
     autoinc |-> [clients |-> 0, invoices |-> 0, platforms |-> 0,
                  transactions |-> 0]]

\* console.error of executeQuery, by importer and row
Logged(p, failed, down) ==
    /\ queryErrors' = [queryErrors EXCEPT
                         ![p] = IF failed THEN @ \cup {RowNumber(p)} ELSE @]
    /\ outage' = [outage EXCEPT ![p] = @ \/ down]

\* a write of importer p ends what the other importers' last runs tell
Written(p, changed) ==
    lastRun' = [q \in Importers |->
                  IF changed /\ q # p THEN NoRun ELSE lastRun[q]]

\* the counters of processCSVData after processClient has returned
CountedClient(st, created) ==
    [st EXCEPT !.clients_created = IF created THEN @ + 1 ELSE @,
               !.clients_updated = IF created THEN @ ELSE @ + 1,
               !.clients_processed = @ + 1]

\* the counters of processCSVData after processInvoice has returned
CountedInvoice(st, created) ==
    [st EXCEPT !.invoices_created = IF created THEN @ + 1 ELSE @,
               !.invoices_updated = IF created THEN @ ELSE @ + 1,
               !.invoices_processed = @ + 1]

\* the transaction counters with transactions_updated++ outside the else
CountedTransactionTwice(st, created) ==
    [st EXCEPT !.transactions_created = IF created THEN @ + 1 ELSE @,
               !.transactions_updated = @ + 1,
               !.transactions_processed = @ + 1]

\* the counters of processCSVData after processTransaction has returned
CountedTransaction(st, created) ==
    [st EXCEPT !.transactions_created = IF created THEN @ + 1 ELSE @,
               !.transactions_updated = IF created THEN @ ELSE @ + 1,
               !.transactions_processed = @ + 1]

\* catch (error) of processCSVData: the message is pushed, the loop goes on
Caught(p, msg) ==
    /\ stats' = [stats EXCEPT
                   ![p].errors = Append(@, Defect(RowNumber(p), msg))]
    /\ idx' = [idx EXCEPT ![p] = @ + 1]
    /\ pc' = [pc EXCEPT ![p] = "loop"]

StartImport(p, n) ==
    /\ pc[p] = "idle"
    /\ n <= inputsLeft
    /\ inputsLeft' = inputsLeft - n
    /\ dataLength' = [dataLength EXCEPT ![p] = n]
    /\ row' = [row EXCEPT ![p] = BlankRow]
    /\ idx' = [idx EXCEPT ![p] = 0]
    /\ stats' = [stats EXCEPT ![p] = ZeroStats]
    /\ pc' = [pc EXCEPT ![p] = "loop"]
    /\ queryErrors' = [queryErrors EXCEPT ![p] = {}]
    /\ outage' = [outage EXCEPT ![p] = FALSE]
    /\ visited' = [visited EXCEPT ![p] = <<>>]
    /\ atStart' = [atStart EXCEPT ![p] = Snapshot]
    /\ UNCHANGED <<requests, dbUp, tx>>
    /\ UNCHANGED <<store, res, clientResult, invoiceResult, platformId,
                   lastRun>>

\* the loop without its continue: a defective row goes on to the resolvers
LoopNoSkip(p, S) ==
    /\ pc[p] = "loop"
    /\ IF idx[p] < dataLength[p]
       THEN \E r \in S :
              /\ row' = [row EXCEPT ![p] = r]
              /\ visited' = [visited EXCEPT ![p] = Append(@, idx[p])]
              /\ stats' = [stats EXCEPT
                             ![p].errors = @ \o validateRow(r, RowNumber(p))]
              /\ pc' = [pc EXCEPT ![p] = "clientSelect"]
       ELSE /\ pc' = [pc EXCEPT ![p] = "done"]
            /\ UNCHANGED <<stats, row, visited>>
    /\ UNCHANGED <<store, dataLength, idx, res, clientResult,
                   invoiceResult, platformId, inputsLeft, queryErrors,
                   outage, atStart, lastRun, requests, dbUp, tx>>

\* the loop with a return in place of its continue: a defective row ends
\* the batch
LoopAborting(p, S) ==
    /\ pc[p] = "loop"
    /\ IF idx[p] < dataLength[p]
       THEN \E r \in S :
              LET validationErrors == validateRow(r, RowNumber(p))
              IN  /\ row' = [row EXCEPT ![p] = r]
                  /\ visited' = [visited EXCEPT ![p] = Append(@, idx[p])]
                  /\ stats' = [stats EXCEPT
                                 ![p].errors = @ \o validationErrors]
                  /\ pc' = [pc EXCEPT
                              ![p] = IF Len(validationErrors) > 0
                                     THEN "done" ELSE "clientSelect"]
       ELSE /\ pc' = [pc EXCEPT ![p] = "done"]
            /\ UNCHANGED <<stats, row, visited>>
    /\ UNCHANGED <<store, dataLength, idx, res, clientResult,
                   invoiceResult, platformId, inputsLeft, queryErrors,
                   outage, atStart, lastRun, requests, dbUp, tx>>

\* the loop without stats.errors.push(...validationErrors): a defective
\* row is skipped and leaves no message
LoopSilent(p, S) ==
    /\ pc[p] = "loop"
    /\ IF idx[p] < dataLength[p]
       THEN \E r \in S :
              LET validationErrors == validateRow(r, RowNumber(p))
              IN  /\ row' = [row EXCEPT ![p] = r]
                  /\ visited' = [visited EXCEPT ![p] = Append(@, idx[p])]
                  /\ IF Len(validationErrors) > 0
                     THEN /\ idx' = [idx EXCEPT ![p] = @ + 1]
                          /\ pc' = pc
                          /\ UNCHANGED stats
                     ELSE /\ pc' = [pc EXCEPT ![p] = "clientSelect"]
                          /\ UNCHANGED <<stats, idx>>
       ELSE /\ pc' = [pc EXCEPT ![p] = "done"]
            /\ UNCHANGED <<stats, idx, row, visited>>
    /\ UNCHANGED <<requests, dbUp, tx>>
    /\ UNCHANGED atStart
    /\ UNCHANGED <<store, dataLength, res, clientResult,
                   invoiceResult, platformId, inputsLeft, queryErrors,
                   outage, lastRun>>

\* the loop of processCSVData: its test, validateRow, and return stats;
\* the rows of the input are drawn from S
Loop(p, S) ==
    /\ pc[p] = "loop"
    /\ IF idx[p] < dataLength[p]
       THEN \E r \in S :
              LET validationErrors == validateRow(r, RowNumber(p))
              IN  /\ row' = [row EXCEPT ![p] = r]
                  /\ visited' = [visited EXCEPT ![p] = Append(@, idx[p])]
                  /\ IF Len(validationErrors) > 0
                     THEN /\ stats' = [stats EXCEPT
                                         ![p].errors = @ \o validationErrors]
                          /\ idx' = [idx EXCEPT ![p] = @ + 1]
                          /\ pc' = pc
                     ELSE /\ pc' = [pc EXCEPT ![p] = "clientSelect"]
                          /\ UNCHANGED <<stats, idx>>
       ELSE /\ pc' = [pc EXCEPT ![p] = "done"]
            /\ UNCHANGED <<stats, idx, row, visited>>
    /\ UNCHANGED <<requests, dbUp, tx>>
    /\ UNCHANGED atStart
    /\ UNCHANGED <<store, dataLength, res, clientResult,
                   invoiceResult, platformId, inputsLeft, queryErrors,
                   outage, lastRun>>

\* the response of the route: the invocation's locals are gone and the
\* importer is free for the next upload
Respond(p) ==
    /\ pc[p] = "done"
    /\ pc' = [pc EXCEPT ![p] = "idle"]
    /\ lastRun' = [lastRun EXCEPT
                     ![p] = IF /\ dataLength[p] = 1
                               /\ ~outage[p]
                               /\ validateRow(row[p], 2) = <<>>
                            THEN [data |-> <<row[p]>>, stats |-> stats[p]]
                            ELSE NoRun]
    /\ dataLength' = [dataLength EXCEPT ![p] = 0]
    /\ row' = [row EXCEPT ![p] = BlankRow]
    /\ idx' = [idx EXCEPT ![p] = 0]
    /\ stats' = [stats EXCEPT ![p] = ZeroStats]
    /\ res' = [res EXCEPT ![p] = NoResult]
    /\ clientResult' = [clientResult EXCEPT ![p] = NoClient]
    /\ invoiceResult' = [invoiceResult EXCEPT ![p] = NoInvoice]
    /\ platformId' = [platformId EXCEPT ![p] = Undefined]
    /\ queryErrors' = [queryErrors EXCEPT ![p] = {}]
    /\ outage' = [outage EXCEPT ![p] = FALSE]
    /\ visited' = [visited EXCEPT ![p] = <<>>]
    /\ atStart' = [atStart EXCEPT ![p] = NoSnapshot]
    /\ UNCHANGED <<store, inputsLeft, requests, dbUp, tx>>

\* processClient called without await: the invoice stage starts while the
\* client stage is under way
ClientSelectUnawaited(p) ==
    /\ pc[p] = "clientSelect"
    /\ LET up == dbUp IN
         /\ res' = [res EXCEPT ![p] =
                executeQuery(up,
                    { [client_id |-> Num(c.client_id)] :
                        c \in { d \in clients :
                                  d.client_code = row[p].client_code } },
                    Rejection(up, TRUE))]
         /\ Logged(p, ~up, ~up)
    /\ pc' = [pc EXCEPT ![p] = "invoiceSelect"]
    /\ UNCHANGED <<requests, dbUp, tx>>
    /\ UNCHANGED atStart
    /\ UNCHANGED <<store, dataLength, row, idx, stats, clientResult,
                   invoiceResult, platformId, inputsLeft, visited, lastRun>>

\* processClient: SELECT client_id FROM clients WHERE client_code = ?
ClientSelect(p) ==
    /\ pc[p] = "clientSelect"
    /\ LET up == dbUp IN
         /\ res' = [res EXCEPT ![p] =
                executeQuery(up,
                    { [client_id |-> Num(c.client_id)] :
                        c \in { d \in clients :
                                  d.client_code = row[p].client_code } },
                    Rejection(up, TRUE))]
         /\ Logged(p, ~up, ~up)
    /\ pc' = [pc EXCEPT ![p] = "clientWrite"]
    /\ UNCHANGED <<requests, dbUp, tx>>
    /\ UNCHANGED atStart
    /\ UNCHANGED <<store, dataLength, row, idx, stats, clientResult,
                   invoiceResult, platformId, inputsLeft, visited, lastRun>>

\* the INSERT of processClient is accepted
CanInsertClient(code, email) == UniqueClientCode(code) /\ UniqueEmail(email)

\* the UPDATE of processClient is accepted
CanUpdateClient(code, email) ==
    email = Null
    \/ \A c \in clients : c.client_code # code => c.email # email

\* INSERT INTO clients ... ON DUPLICATE KEY UPDATE is_active = TRUE
UpsertedClients(ok, new) ==
    IF ok
    THEN clients \cup {new}
    ELSE { IF c.client_code = new.client_code
           THEN [c EXCEPT !.is_active = TRUE] ELSE c : c \in clients }

\* INSERT INTO clients: the table after the statement, accepted or not
InsertedClients(ok, new) == IF ok THEN clients \cup {new} ELSE clients

\* processClient after its SELECT, and the client counters of processCSVData
ClientWrite(p) ==
    /\ pc[p] = "clientWrite"
    /\ LET up == dbUp IN
         LET cells == row[p]
             email == OrNull(cells.email)
             found == Found(res[p])
             ok == up /\ IF found
                         THEN CanUpdateClient(cells.client_code, email)
                         ELSE CanInsertClient(cells.client_code, email)
             result == executeQuery(ok, ResultSetHeader(autoinc.clients),
                                    Rejection(up, TRUE))
             thrown == found /\ First(res[p]) = Undefined
             ret == IF found
                    THEN [clientId |-> Prop(First(res[p]), "client_id"),
                          created |-> FALSE]
                    ELSE [clientId |-> Prop(result, "insertId"),
                          created |-> TRUE]
         IN  /\ clients' =
                  IF found
                  THEN IF ~ok THEN clients
                       ELSE { IF c.client_code = cells.client_code
                              THEN [c EXCEPT !.first_name = cells.first_name,
                                             !.last_name = cells.last_name,
                                             !.email = email]
                              ELSE c : c \in clients }
                  ELSE InsertedClients(ok,
                         [client_id |-> autoinc.clients,
                          client_code |-> cells.client_code,
                          first_name |-> cells.first_name,
                          last_name |-> cells.last_name,
                          email |-> email, is_active |-> TRUE])
             /\ autoinc' = IF ok /\ ~found
                           THEN [autoinc EXCEPT !.clients = @ + 1]
                           ELSE autoinc
             /\ Logged(p, ~ok, ~up)
             /\ Written(p, ok)
             /\ IF thrown
                THEN /\ Caught(p, "Error processing client")
                     /\ UNCHANGED clientResult
                ELSE /\ clientResult' = [clientResult EXCEPT ![p] = ret]
                     /\ stats' = [stats EXCEPT
                                    ![p] = CountedClient(@, ret.created)]
                     /\ pc' = [pc EXCEPT ![p] = "invoiceSelect"]
                     /\ UNCHANGED idx
    /\ res' = [res EXCEPT ![p] = NoResult]
    /\ UNCHANGED <<requests, dbUp, tx>>
    /\ UNCHANGED atStart
    /\ UNCHANGED <<invoices, platforms, transactions, dataLength, row,
                   invoiceResult,
                   platformId, inputsLeft, visited>>

\* processInvoice: SELECT invoice_id FROM invoices WHERE invoice_number = ?
InvoiceSelect(p) ==
    /\ pc[p] = "invoiceSelect"
    /\ LET up == dbUp IN
         /\ res' = [res EXCEPT ![p] =
                executeQuery(up,
                    { [invoice_id |-> Num(i.invoice_id)] :
                        i \in { j \in invoices :
                                  j.invoice_number = row[p].invoice_number } },
                    Rejection(up, TRUE))]
         /\ Logged(p, ~up, ~up)
    /\ pc' = [pc EXCEPT ![p] = "invoiceWrite"]
    /\ UNCHANGED <<requests, dbUp, tx>>
    /\ UNCHANGED atStart
    /\ UNCHANGED <<store, dataLength, row, idx, stats, clientResult,
                   invoiceResult, platformId, inputsLeft, visited, lastRun>>

\* the clients of the store with the client_code of row r
ClientsOf(r) == { c \in clients : c.client_code = r.client_code }

\* the INSERT of processInvoice is accepted: no undefined parameter, numeric
\* amounts, a new invoice_number, an existing client
CanInsertInvoice(number, clientId, total, paid) ==
    /\ clientId # Undefined
    /\ IsNum(total) /\ IsNum(paid)
    /\ UniqueInvoiceNumber(number)
    /\ ClientExists(clientId)

\* processInvoice inside a transaction of the row: a rejected statement
\* rolls the row's client back
InvoiceWriteRollingBack(p) ==
    /\ pc[p] = "invoiceWrite"
    /\ LET up == dbUp IN
         LET cells == row[p]
             clientId == clientResult[p].clientId
             total == parseFloat(cells.total_amount)
             paid == parseFloat(cells.paid_amount)
             found == Found(res[p])
             ok == up /\ IF found
                         THEN IsNum(total) /\ IsNum(paid)
                         ELSE CanInsertInvoice(cells.invoice_number, clientId,
                                               total, paid)
             result == executeQuery(ok, ResultSetHeader(autoinc.invoices),
                                    Rejection(up, clientId # Undefined))
             thrown == found /\ First(res[p]) = Undefined
             ret == IF found
                    THEN [invoiceId |-> Prop(First(res[p]), "invoice_id"),
                          created |-> FALSE]
                    ELSE [invoiceId |-> Prop(result, "insertId"),
                          created |-> TRUE]
         IN  /\ invoices' =
                  IF ~ok THEN invoices
                  ELSE IF found
                  THEN { IF i.invoice_number = cells.invoice_number
                         THEN [i EXCEPT !.total_amount = total.v,
                                        !.paid_amount = paid.v,
                                        !.status = cells.invoice_status]
                         ELSE i : i \in invoices }
                  ELSE invoices \cup
                       { [invoice_id |-> autoinc.invoices,
                          invoice_number |-> cells.invoice_number,
                          client_id |-> clientId.v,
                          total_amount |-> total.v, paid_amount |-> paid.v,
                          status |-> cells.invoice_status] }
             /\ clients' =
                  IF ok THEN clients
                  ELSE { c \in clients :
                           c.client_code # cells.client_code }
             /\ autoinc' = IF ok /\ ~found
                           THEN [autoinc EXCEPT !.invoices = @ + 1]
                           ELSE autoinc
             /\ Logged(p, ~ok, ~up)
             /\ Written(p, ok)
             /\ IF thrown
                THEN /\ Caught(p, "Error processing invoice")
                     /\ UNCHANGED invoiceResult
                ELSE /\ invoiceResult' = [invoiceResult EXCEPT ![p] = ret]
                     /\ stats' = [stats EXCEPT
                                    ![p] = CountedInvoice(@, ret.created)]
                     /\ pc' = [pc EXCEPT ![p] = "platformSelect"]
                     /\ UNCHANGED idx
    /\ res' = [res EXCEPT ![p] = NoResult]
    /\ UNCHANGED <<requests, dbUp, tx>>
    /\ UNCHANGED atStart
    /\ UNCHANGED <<platforms, transactions, dataLength, row,
                   clientResult,
                   platformId, inputsLeft, visited>>

\* processInvoice with INSERT ... ON DUPLICATE KEY UPDATE client_id = the
\* client of the row: an existing invoice goes over to the client the row
\* names
InvoiceWriteReassigning(p) ==
    /\ pc[p] = "invoiceWrite"
    /\ LET up == dbUp IN
         LET cells == row[p]
             clientId == clientResult[p].clientId
             total == parseFloat(cells.total_amount)
             paid == parseFloat(cells.paid_amount)
             found == Found(res[p])
             ok == up /\ IF found
                         THEN IsNum(total) /\ IsNum(paid)
                         ELSE CanInsertInvoice(cells.invoice_number, clientId,
                                               total, paid)
             result == executeQuery(ok, ResultSetHeader(autoinc.invoices),
                                    Rejection(up, clientId # Undefined))
             thrown == found /\ First(res[p]) = Undefined
             ret == IF found
                    THEN [invoiceId |-> Prop(First(res[p]), "invoice_id"),
                          created |-> FALSE]
                    ELSE [invoiceId |-> Prop(result, "insertId"),
                          created |-> TRUE]
         IN  /\ invoices' =
                  IF ~ok
                  THEN { IF /\ up
                            /\ i.invoice_number = cells.invoice_number
                            /\ ClientsOf(cells) # {}
                         THEN [i EXCEPT !.client_id =
                                 (CHOOSE c \in ClientsOf(cells) :
                                    TRUE).client_id]
                         ELSE i : i \in invoices }
                  ELSE IF found
                  THEN { IF i.invoice_number = cells.invoice_number
                         THEN [i EXCEPT !.total_amount = total.v,
                                        !.paid_amount = paid.v,
                                        !.status = cells.invoice_status]
                         ELSE i : i \in invoices }
                  ELSE invoices \cup
                       { [invoice_id |-> autoinc.invoices,
                          invoice_number |-> cells.invoice_number,
                          client_id |-> clientId.v,
                          total_amount |-> total.v, paid_amount |-> paid.v,
                          status |-> cells.invoice_status] }
             /\ autoinc' = IF ok /\ ~found
                           THEN [autoinc EXCEPT !.invoices = @ + 1]
                           ELSE autoinc
             /\ Logged(p, ~ok, ~up)
             /\ Written(p, ok)
             /\ IF thrown
                THEN /\ Caught(p, "Error processing invoice")
                     /\ UNCHANGED invoiceResult
                ELSE /\ invoiceResult' = [invoiceResult EXCEPT ![p] = ret]
                     /\ stats' = [stats EXCEPT
                                    ![p] = CountedInvoice(@, ret.created)]
                     /\ pc' = [pc EXCEPT ![p] = "platformSelect"]
                     /\ UNCHANGED idx
    /\ res' = [res EXCEPT ![p] = NoResult]
    /\ UNCHANGED <<requests, dbUp, tx>>
    /\ UNCHANGED atStart
    /\ UNCHANGED <<clients, platforms, transactions, dataLength, row,
                   clientResult,
                   platformId, inputsLeft, visited>>

\* processInvoice after its SELECT, and the invoice counters
InvoiceWrite(p) ==
    /\ pc[p] = "invoiceWrite"
    /\ LET up == dbUp IN
         LET cells == row[p]
             clientId == clientResult[p].clientId
             total == parseFloat(cells.total_amount)
             paid == parseFloat(cells.paid_amount)
             found == Found(res[p])
             ok == up /\ IF found
                         THEN IsNum(total) /\ IsNum(paid)
                         ELSE CanInsertInvoice(cells.invoice_number, clientId,
                                               total, paid)
             result == executeQuery(ok, ResultSetHeader(autoinc.invoices),
                                    Rejection(up, clientId # Undefined))
             thrown == found /\ First(res[p]) = Undefined
             ret == IF found
                    THEN [invoiceId |-> Prop(First(res[p]), "invoice_id"),
                          created |-> FALSE]
                    ELSE [invoiceId |-> Prop(result, "insertId"),
                          created |-> TRUE]
         IN  /\ invoices' =
                  IF ~ok THEN invoices
                  ELSE IF found
                  THEN { IF i.invoice_number = cells.invoice_number
                         THEN [i EXCEPT !.total_amount = total.v,
                                        !.paid_amount = paid.v,
                                        !.status = cells.invoice_status]
                         ELSE i : i \in invoices }
                  ELSE invoices \cup
                       { [invoice_id |-> autoinc.invoices,
                          invoice_number |-> cells.invoice_number,
                          client_id |-> clientId.v,
                          total_amount |-> total.v, paid_amount |-> paid.v,
                          status |-> cells.invoice_status] }
             /\ autoinc' = IF ok /\ ~found
                           THEN [autoinc EXCEPT !.invoices = @ + 1]
                           ELSE autoinc
             /\ Logged(p, ~ok, ~up)
             /\ Written(p, ok)
             /\ IF thrown
                THEN /\ Caught(p, "Error processing invoice")
                     /\ UNCHANGED invoiceResult
                ELSE /\ invoiceResult' = [invoiceResult EXCEPT ![p] = ret]
                     /\ stats' = [stats EXCEPT
                                    ![p] = CountedInvoice(@, ret.created)]
                     /\ pc' = [pc EXCEPT ![p] = "platformSelect"]
                     /\ UNCHANGED idx
    /\ res' = [res EXCEPT ![p] = NoResult]
    /\ UNCHANGED <<requests, dbUp, tx>>
    /\ UNCHANGED atStart
    /\ UNCHANGED <<clients, platforms, transactions, dataLength, row,
                   clientResult,
                   platformId, inputsLeft, visited>>

\* processTransaction: SELECT platform_id FROM platforms WHERE
\* platform_name = ?, and the use of an existing platform
PlatformSelect(p) ==
    /\ pc[p] = "platformSelect"
    /\ LET up == dbUp IN
         LET existing ==
                executeQuery(up,
                    { [platform_id |-> Num(q.platform_id)] :
                        q \in { r \in platforms :
                                  r.platform_name = row[p].platform_name } },
                    Rejection(up, TRUE))
         IN  /\ Logged(p, ~up, ~up)
             /\ IF Found(existing)
                THEN IF First(existing) = Undefined
                     THEN /\ Caught(p, "Error processing transaction")
                          /\ UNCHANGED platformId
                     ELSE /\ platformId' = [platformId EXCEPT ![p] =
                                Prop(First(existing), "platform_id")]
                          /\ pc' = [pc EXCEPT ![p] = "transactionSelect"]
                          /\ UNCHANGED <<stats, idx>>
                ELSE /\ pc' = [pc EXCEPT ![p] = "platformInsert"]
                     /\ UNCHANGED <<platformId, stats, idx>>
    /\ UNCHANGED <<requests, dbUp, tx>>
    /\ UNCHANGED atStart
    /\ UNCHANGED <<store, dataLength, row, res, clientResult, invoiceResult,
                   inputsLeft,
                   visited, lastRun>>

\* processTransaction: INSERT INTO platforms (platform_name, platform_type)
PlatformInsert(p) ==
    /\ pc[p] = "platformInsert"
    /\ LET up == dbUp IN
         LET name == row[p].platform_name
             ok == up /\ UniquePlatformName(name)
             platformResult ==
                executeQuery(ok, ResultSetHeader(autoinc.platforms),
                             Rejection(up, TRUE))
         IN  /\ platforms' =
                  IF ok
                  THEN platforms \cup
                       { [platform_id |-> autoinc.platforms,
                          platform_name |-> name,
                          platform_type |-> "DIGITAL_WALLET",
                          is_active |-> TRUE] }
                  ELSE platforms
             /\ autoinc' = IF ok THEN [autoinc EXCEPT !.platforms = @ + 1]
                           ELSE autoinc
             /\ platformId' = [platformId EXCEPT ![p] =
                                 Prop(platformResult, "insertId")]
             /\ Logged(p, ~ok, ~up)
             /\ Written(p, ok)
    /\ pc' = [pc EXCEPT ![p] = "transactionSelect"]
    /\ UNCHANGED <<requests, dbUp, tx>>
    /\ UNCHANGED atStart
    /\ UNCHANGED <<clients, invoices, transactions, dataLength, row, idx,
                   stats, res,
                   clientResult, invoiceResult, inputsLeft, visited>>

\* processTransaction: SELECT transaction_id FROM transactions WHERE
\* transaction_reference = ?
TransactionSelect(p) ==
    /\ pc[p] = "transactionSelect"
    /\ LET up == dbUp IN
         /\ res' = [res EXCEPT ![p] =
                executeQuery(up,
                    { [transaction_id |-> Num(t.transaction_id)] :
                        t \in { u \in transactions :
                                  u.transaction_reference =
                                      row[p].transaction_reference } },
                    Rejection(up, TRUE))]
         /\ Logged(p, ~up, ~up)
    /\ pc' = [pc EXCEPT ![p] = "transactionWrite"]
    /\ UNCHANGED <<requests, dbUp, tx>>
    /\ UNCHANGED atStart
    /\ UNCHANGED <<store, dataLength, row, idx, stats, clientResult,
                   invoiceResult, platformId, inputsLeft, visited, lastRun>>

\* the INSERT of processTransaction is accepted
CanInsertTransaction(ref, invoiceId, platform, amount) ==
    /\ invoiceId # Undefined /\ platform # Undefined
    /\ IsNum(amount)
    /\ UniqueTransactionReference(ref)
    /\ InvoiceExists(invoiceId)
    /\ PlatformExists(platform)

\* the UPDATE of processTransaction is accepted
CanUpdateTransaction(invoiceId, platform, amount) ==
    /\ invoiceId # Undefined /\ platform # Undefined
    /\ IsNum(amount)
    /\ InvoiceExists(invoiceId)
    /\ PlatformExists(platform)

\* processTransaction after its SELECT, the transaction counters, and the
\* end of the loop body
TransactionWrite(p) ==
    /\ pc[p] = "transactionWrite"
    /\ LET up == dbUp IN
         LET cells == row[p]
             invoiceId == invoiceResult[p].invoiceId
             platform == platformId[p]
             amount == parseFloat(cells.transaction_amount)
             found == Found(res[p])
             bound == invoiceId # Undefined /\ platform # Undefined
             ok == up /\ IF found
                         THEN CanUpdateTransaction(invoiceId, platform, amount)
                         ELSE CanInsertTransaction(cells.transaction_reference,
                                                   invoiceId, platform, amount)
             result == executeQuery(ok, ResultSetHeader(autoinc.transactions),
                                    Rejection(up, bound))
             thrown == found /\ First(res[p]) = Undefined
             ret == IF found
                    THEN [transactionId |->
                              Prop(First(res[p]), "transaction_id"),
                          created |-> FALSE]
                    ELSE [transactionId |-> Prop(result, "insertId"),
                          created |-> TRUE]
         IN  /\ transactions' =
                  IF ~ok THEN transactions
                  ELSE IF found
                  THEN { IF t.transaction_reference = cells.transaction_reference
                         THEN [t EXCEPT !.invoice_id = invoiceId.v,
                                        !.platform_id = platform.v,
                                        !.amount = amount.v,
                                        !.status = cells.transaction_status]
                         ELSE t : t \in transactions }
                  ELSE transactions \cup
                       { [transaction_id |-> autoinc.transactions,
                          transaction_reference |-> cells.transaction_reference,
                          invoice_id |-> invoiceId.v,
                          platform_id |-> platform.v,
                          amount |-> amount.v,
                          status |-> cells.transaction_status] }
             /\ autoinc' = IF ok /\ ~found
                           THEN [autoinc EXCEPT !.transactions = @ + 1]
                           ELSE autoinc
             /\ Logged(p, ~ok, ~up)
             /\ Written(p, ok)
             /\ IF thrown
                THEN Caught(p, "Error processing transaction")
                ELSE /\ stats' = [stats EXCEPT
                               ![p] = CountedTransaction(@, ret.created)]
                     /\ idx' = [idx EXCEPT ![p] = @ + 1]
                     /\ pc' = [pc EXCEPT ![p] = "loop"]
    /\ res' = [res EXCEPT ![p] = NoResult]
    /\ platformId' = [platformId EXCEPT ![p] = Undefined]
    /\ clientResult' = [clientResult EXCEPT ![p] = NoClient]
    /\ invoiceResult' = [invoiceResult EXCEPT ![p] = NoInvoice]
    /\ UNCHANGED <<requests, dbUp, tx>>
    /\ UNCHANGED atStart
    /\ UNCHANGED <<clients, invoices, platforms, dataLength, row, inputsLeft,
                   visited>>

(***************************************************************************)
(* models/Client and routes/clients: the two deletions.  Each handler      *)
(* looks the client up and answers 404 when it is absent, which leaves     *)
(* the store as it was; the statement that follows is the step modelled.   *)
(***************************************************************************)
\* Client.delete: UPDATE clients SET is_active = FALSE WHERE client_id = ?
SoftDelete(clientId) ==
    /\ \E c \in clients : c.client_id = clientId
    /\ clients' = { IF c.client_id = clientId
                    THEN [c EXCEPT !.is_active = FALSE]
                    ELSE c : c \in clients }
    /\ lastRun' = [q \in Importers |-> NoRun]
    /\ UNCHANGED <<requests, dbUp, tx>>
    /\ UNCHANGED atStart
    /\ UNCHANGED <<invoices, platforms, transactions, autoinc, locals,
                   inputsLeft, queryErrors,
                   outage, visited>>

\* Client.hardDelete: DELETE FROM clients WHERE client_id = ?, with the
\* cascades of the schema
HardDelete(clientId) ==
    /\ \E c \in clients : c.client_id = clientId
    /\ clients' = { c \in clients : c.client_id # clientId }
    /\ invoices' = CascadeInvoices({clientId})
    /\ transactions' = CascadeTransactions(CascadeInvoices({clientId}))
    /\ lastRun' = [q \in Importers |-> NoRun]
    /\ UNCHANGED <<requests, dbUp, tx>>
    /\ UNCHANGED atStart
    /\ UNCHANGED <<platforms, autoinc, locals, inputsLeft, queryErrors, outage,
                   visited>>

(***************************************************************************)
(* routes/clients: POST /api/clients.  The bodies pass the validation      *)
(* rules of Client.getValidationRules; email is optional and undefined     *)
(* when the body does not carry it.                                        *)
(***************************************************************************)
UndefinedText == "<undefined>"

Bodies ==
    [client_code : {"C1"}, first_name : {"Ana"}, last_name : {"Diaz"},
     email : {UndefinedText, "a@x"}]

\* Client.getByCode, and the 409 answer
PostCheck(q, body) ==
    /\ reqPc[q] = "idle"
    /\ inputsLeft > 0
    /\ inputsLeft' = inputsLeft - 1
    /\ reqBody' = [reqBody EXCEPT ![q] = body]
    /\ LET up == dbUp IN
         LET existingClient ==
                executeQuery(up,
                    { c \in clients : c.client_code = body.client_code },
                    Rejection(up, TRUE))
         IN  IF existingClient.success
                /\ Cardinality(existingClient.data) > 0
             THEN /\ reqStatus' = [reqStatus EXCEPT ![q] = 409]
                  /\ UNCHANGED reqPc
             ELSE /\ reqPc' = [reqPc EXCEPT ![q] = "create"]
                  /\ UNCHANGED reqStatus
    /\ UNCHANGED <<store, locals, queryErrors, outage, visited, atStart,
                   lastRun, reqResult, report, dbUp, tx>>

\* Client.create, and the 500 answer
PostCreate(q) ==
    /\ reqPc[q] = "create"
    /\ LET up == dbUp IN
         LET body == reqBody[q]
             bound == body.email # UndefinedText
             ok == /\ up
                   /\ bound
                   /\ CanInsertClient(body.client_code, body.email)
             result == executeQuery(ok, ResultSetHeader(autoinc.clients),
                                    Rejection(up, bound))
         IN  /\ clients' =
                  IF ok
                  THEN clients \cup
                       { [client_id |-> autoinc.clients,
                          client_code |-> body.client_code,
                          first_name |-> body.first_name,
                          last_name |-> body.last_name,
                          email |-> body.email, is_active |-> TRUE] }
                  ELSE clients
             /\ autoinc' = IF ok THEN [autoinc EXCEPT !.clients = @ + 1]
                           ELSE autoinc
             /\ lastRun' = IF ok THEN [p \in Importers |-> NoRun] ELSE lastRun
             /\ IF result.success
                THEN /\ reqResult' = [reqResult EXCEPT
                                        ![q] = result.data.insertId]
                     /\ reqPc' = [reqPc EXCEPT ![q] = "fetch"]
                     /\ UNCHANGED reqStatus
                ELSE /\ reqStatus' = [reqStatus EXCEPT ![q] = 500]
                     /\ reqPc' = [reqPc EXCEPT ![q] = "idle"]
                     /\ UNCHANGED reqResult
    /\ UNCHANGED atStart
    /\ UNCHANGED <<invoices, platforms, transactions, locals, inputsLeft,
                   queryErrors, outage, visited, reqBody, report, dbUp, tx>>

\* Client.getById of the created client, and the 201 answer; reading
\* data[0] of a failed result throws, which the handler answers with 500
PostFetch(q) ==
    /\ reqPc[q] = "fetch"
    /\ LET up == dbUp IN
         LET createdClient ==
                executeQuery(up,
                    { c \in clients : c.client_id = reqResult[q].v },
                    Rejection(up, TRUE))
         IN  reqStatus' = [reqStatus EXCEPT
                             ![q] = IF createdClient.success THEN 201 ELSE 500]
    /\ reqPc' = [reqPc EXCEPT ![q] = "idle"]
    /\ reqResult' = [reqResult EXCEPT ![q] = Undefined]
    /\ UNCHANGED <<store, locals, history, reqBody, report, dbUp, tx>>

(***************************************************************************)
(* routes/queries: the three reports.  Each route runs one SELECT and      *)
(* computes its summary from the rows; the ORDER BY of the statements is   *)
(* left out and the rows are a set.  DECIMAL columns reach the handler as  *)
(* text, which it reads with parseFloat.                                   *)
(***************************************************************************)
NoReport == [kind |-> "none"]

DigitChar(d) == CHOOSE c \in DigitChars : DigitVal(c) = d

RECURSIVE Digits(_)
Digits(n) ==
    IF n < 10 THEN <<DigitChar(n)>>
    ELSE Digits(n \div 10) \o <<DigitChar(n % 10)>>

\* a DECIMAL(15,2) value as mysql2 hands it over
DecimalText(n) == Digits(n) \o <<".", "0", "0">>

\* SUM(t.amount)
RECURSIVE SumAmounts(_)
SumAmounts(T) ==
    IF T = {} THEN 0
    ELSE LET t == CHOOSE u \in T : TRUE
         IN  t.amount + SumAmounts(T \ {t})

\* the columns of the invoices table
InvoicesColumns ==
    {"invoice_id", "invoice_number", "client_id", "billing_period",
     "total_amount", "paid_amount", "status", "description", "created_at",
     "updated_at"}

\* the statement names only columns the table has
Prepared(columns) == columns \subseteq InvoicesColumns

\* the message of the error a report's statement is rejected with
ReportRejection(up) ==
    IF ~up THEN Rejection(up, TRUE) ELSE "Unknown column in field list"

\* the joins without AND t.status = 'COMPLETED'
AnyStatusOf(c) ==
    { t \in transactions :
        \E i \in invoices :
          i.invoice_id = t.invoice_id /\ i.client_id = c.client_id }

\* LEFT JOIN invoices, LEFT JOIN transactions ... AND t.status = 'COMPLETED'
CompletedOf(c) ==
    { t \in transactions :
        /\ t.status = "COMPLETED"
        /\ \E i \in invoices :
             i.invoice_id = t.invoice_id /\ i.client_id = c.client_id }

\* the rows of the total-payments statement
TotalPaymentsRows ==
    { [client_id |-> c.client_id, client_code |-> c.client_code,
       total_paid |-> DecimalText(SumAmounts(CompletedOf(c))),
       total_transactions |-> Cardinality(CompletedOf(c))] :
        c \in { d \in clients : d.is_active } }

\* data.reduce((sum, client) => sum + parseFloat(client.total_paid), 0)
RECURSIVE SumPaid(_)
SumPaid(rows) ==
    IF rows = {} THEN 0
    ELSE LET r == CHOOSE u \in rows : TRUE
         IN  parseFloat(r.total_paid).v + SumPaid(rows \ {r})

\* a / b of two numbers, the quotient kept as a fraction
JsDiv(a, b) ==
    IF b = 0 THEN NaN ELSE [t |-> "number", num |-> a, den |-> b]

\* the average without its test of totalClients
UnguardedAverage(totalAmount, totalClients) == JsDiv(totalAmount, totalClients)

\* totalClients > 0 ? totalAmount / totalClients : 0
averagePayment(totalAmount, totalClients) ==
    IF totalClients > 0 THEN JsDiv(totalAmount, totalClients) ELSE Num(0)

\* GET /api/queries/total-payments
TotalPayments ==
    /\ LET up == dbUp IN
         LET result == executeQuery(up, TotalPaymentsRows, ReportRejection(up))
         IN  report' =
               IF ~result.success
               THEN [kind |-> "total-payments", at |-> Snapshot,
                     up |-> up, status |-> 500]
               ELSE LET totalClients == Cardinality(result.data)
                        totalAmount == SumPaid(result.data)
                    IN  [kind |-> "total-payments", at |-> Snapshot,
                         up |-> up, status |-> 200, data |-> result.data,
                         summary |->
                           [total_clients |-> totalClients,
                            total_amount_paid |-> totalAmount,
                            average_payment_per_client |->
                              averagePayment(totalAmount, totalClients)],
                         count |-> Cardinality(result.data)]
    /\ UNCHANGED <<store, locals, history, reqPc, reqBody, reqResult,
                   reqStatus, dbUp, tx>>

\* the columns of invoices the pending-invoices statement names
PendingInvoicesColumns ==
    {"invoice_id", "invoice_number", "invoice_date", "due_date",
     "total_amount", "paid_amount", "status", "description", "client_id"}

\* the rows of the pending-invoices statement
PendingInvoicesRows ==
    { [invoice_id |-> x[1].invoice_id,
       invoice_number |-> x[1].invoice_number,
       client_code |-> x[2].client_code,
       total_amount |-> DecimalText(x[1].total_amount),
       paid_amount |-> DecimalText(x[1].paid_amount),
       pending_amount |->
         DecimalText(x[1].total_amount - x[1].paid_amount),
       status |-> x[1].status] :
        x \in { y \in invoices \X clients :
                  /\ y[1].client_id = y[2].client_id
                  /\ y[1].status \in {"PENDING", "PARTIAL", "OVERDUE"}
                  /\ y[2].is_active } }

\* GET /api/queries/pending-invoices
PendingInvoices ==
    /\ LET up == dbUp IN
         LET result == executeQuery(up /\ Prepared(PendingInvoicesColumns),
                                    PendingInvoicesRows, ReportRejection(up))
         IN  report' =
               IF ~result.success
               THEN [kind |-> "pending-invoices", at |-> Snapshot,
                     up |-> up, status |-> 500]
               ELSE [kind |-> "pending-invoices", at |-> Snapshot,
                     up |-> up, status |-> 200, data |-> result.data,
                     summary |->
                       [total_pending_invoices |->
                          Cardinality(result.data)],
                     count |-> Cardinality(result.data)]
    /\ UNCHANGED <<store, locals, history, reqPc, reqBody, reqResult,
                   reqStatus, dbUp, tx>>

\* the columns of invoices the transactions-by-platform statement names
TransactionsByPlatformColumns ==
    {"invoice_id", "client_id", "invoice_number", "invoice_date",
     "total_amount", "status"}

\* req.query.platform: absent, or the name of a platform
Filters == {"", "Nequi", "Daviplata"}

\* the rows of the transactions-by-platform statement
TransactionsByPlatformRows(platform) ==
    { [transaction_id |-> x[1].transaction_id,
       transaction_reference |-> x[1].transaction_reference,
       platform_name |-> x[2].platform_name,
       amount |-> DecimalText(x[1].amount),
       status |-> x[1].status,
       invoice_number |-> x[3].invoice_number,
       client_code |-> x[4].client_code] :
        x \in { y \in transactions \X platforms \X invoices \X clients :
                  /\ y[1].platform_id = y[2].platform_id
                  /\ y[1].invoice_id = y[3].invoice_id
                  /\ y[3].client_id = y[4].client_id
                  /\ y[4].is_active
                  /\ platform # "" => y[2].platform_name = platform } }

\* GET /api/queries/transactions-by-platform
TransactionsByPlatform(platform) ==
    /\ LET up == dbUp IN
         LET result ==
                executeQuery(up /\ Prepared(TransactionsByPlatformColumns),
                             TransactionsByPlatformRows(platform),
                             ReportRejection(up))
         IN  report' =
               IF ~result.success
               THEN [kind |-> "transactions-by-platform", at |-> Snapshot,
                     up |-> up, platform |-> platform, status |-> 500]
               ELSE [kind |-> "transactions-by-platform", at |-> Snapshot,
                     up |-> up, platform |-> platform, status |-> 200,
                     data |-> result.data,
                     summary |->
                       [total_transactions |-> Cardinality(result.data)],
                     count |-> Cardinality(result.data)]
    /\ UNCHANGED <<store, locals, history, reqPc, reqBody, reqResult,
                   reqStatus, dbUp, tx>>

(***************************************************************************)
(* config/database: executeTransaction.  Each await of the function is one *)
(* step.  The statements of the queries are INSERTs into clients; what a   *)
(* connection has written inside its transaction is in tx.pending until    *)
(* COMMIT puts it into the table, and is dropped by ROLLBACK or with the    *)
(* connection.  An operation on a connection that is not alive rejects.    *)
(***************************************************************************)
NoTx ==
    [pc |-> "idle", queries |-> <<>>, k |-> 0, pending |-> {},
     alive |-> FALSE, taken |-> 0, released |-> 0, failed |-> FALSE,
     results |-> <<>>, outcome |-> "none"]

\* the queries handed to executeTransaction: one INSERT INTO clients per
\* client_code
Queries ==
    UNION { [1 .. n -> {"C1", "C2"}] : n \in 1 .. MaxInputs }

\* the row an INSERT INTO clients of the queries writes
TxClient(code) ==
    [client_id |-> autoinc.clients, client_code |-> code,
     first_name |-> "Ana", last_name |-> "Diaz", email |-> Null,
     is_active |-> TRUE]

\* const connection = await pool.getConnection(), outside the try: a
\* rejection leaves executeTransaction as it is
TxGetConnection(queries) ==
    /\ tx.pc = "idle"
    /\ Len(queries) <= inputsLeft
    /\ inputsLeft' = inputsLeft - Len(queries)
    /\ tx' = IF dbUp
             THEN [NoTx EXCEPT !.pc = "begin", !.queries = queries,
                               !.alive = TRUE, !.taken = 1]
             ELSE [NoTx EXCEPT !.pc = "returned", !.queries = queries,
                               !.outcome = "thrown"]
    /\ UNCHANGED <<store, locals, queryErrors, outage, visited, atStart,
                   lastRun, requests, dbUp>>

\* await connection.beginTransaction()
TxBegin ==
    /\ tx.pc = "begin"
    /\ tx' = IF tx.alive
             THEN [tx EXCEPT !.pc = "execute", !.k = 1]
             ELSE [tx EXCEPT !.pc = "rollback"]
    /\ UNCHANGED <<store, locals, history, requests, dbUp>>

\* await connection.execute(query.sql, query.params || []) and
\* results.push(rows), for the query the loop is at; AUTO_INCREMENT values
\* are handed out at once and are not given back
TxExecute ==
    /\ tx.pc = "execute"
    /\ LET code == tx.queries[tx.k]
           ok == /\ tx.alive
                 /\ UniqueClientCode(code)
                 /\ \A c \in tx.pending : c.client_code # code
       IN  IF ok
           THEN /\ tx' = [tx EXCEPT
                            !.pending = @ \cup {TxClient(code)},
                            !.results =
                                Append(@, ResultSetHeader(autoinc.clients)),
                            !.k = @ + 1,
                            !.pc = IF tx.k = Len(tx.queries)
                                   THEN "commit" ELSE "execute"]
                /\ autoinc' = [autoinc EXCEPT !.clients = @ + 1]
           ELSE /\ tx' = [tx EXCEPT !.failed = TRUE, !.pc = "rollback"]
                /\ UNCHANGED autoinc
    /\ UNCHANGED <<clients, invoices, platforms, transactions, locals,
                   history, requests, dbUp>>

\* await connection.commit(), return { success: true, data: results } and
\* the release of the finally block
TxCommit ==
    /\ tx.pc = "commit"
    /\ IF tx.alive
       THEN /\ clients' = clients \cup tx.pending
            /\ tx' = [tx EXCEPT !.pending = {}, !.outcome = "success",
                                !.released = @ + 1, !.alive = FALSE,
                                !.pc = "returned"]
            /\ lastRun' = [q \in Importers |-> NoRun]
       ELSE /\ tx' = [tx EXCEPT !.pc = "rollback"]
            /\ UNCHANGED <<clients, lastRun>>
    /\ UNCHANGED <<invoices, platforms, transactions, autoinc, locals,
                   inputsLeft, queryErrors, outage, visited, atStart,
                   requests, dbUp>>

\* catch (error): await connection.rollback() and return { success:
\* false, error }, or the rejection of rollback leaving the catch block;
\* then the release of the finally block
TxRollback ==
    /\ tx.pc = "rollback"
    /\ tx' = [tx EXCEPT !.pending = {},
                        !.outcome = IF tx.alive THEN "failure" ELSE "thrown",
                        !.released = @ + 1, !.alive = FALSE,
                        !.pc = "returned"]
    /\ UNCHANGED <<store, locals, history, requests, dbUp>>

\* the caller has the result; the next call can be made
TxReturn ==
    /\ tx.pc = "returned"
    /\ tx' = NoTx
    /\ UNCHANGED <<store, locals, history, requests, dbUp>>

\* the connection to the MySQL server is lost, and comes back
Disconnect ==
    /\ dbUp
    /\ dbUp' = FALSE
    /\ tx' = [tx EXCEPT !.alive = FALSE, !.pending = {}]
    /\ UNCHANGED <<store, locals, history, requests>>

Reconnect ==
    /\ ~dbUp
    /\ dbUp' = TRUE
    /\ UNCHANGED <<store, locals, history, requests, tx>>

(***************************************************************************)
(* Initial states.  The schema creates the four tables and seeds the       *)
(* platforms; the database the server connects to is either that one or    *)
(* one already holding rows that satisfy the schema's constraints.         *)
(***************************************************************************)
EmptyStore ==
    [clients |-> {}, invoices |-> {}, transactions |-> {},
     autoinc |-> [clients |-> 1, invoices |-> 1, platforms |-> 6,
                  transactions |-> 1]]

LoadedStore ==
    [clients |->
        { [client_id |-> 1, client_code |-> "C1", first_name |-> "Ana",
           last_name |-> "Diaz", email |-> Null, is_active |-> TRUE] },
     invoices |->
        { [invoice_id |-> 1, invoice_number |-> "I1", client_id |-> 1,
           total_amount |-> 5, paid_amount |-> 5, status |-> "PAID"],
          [invoice_id |-> 2, invoice_number |-> "I9", client_id |-> 1,
           total_amount |-> 5, paid_amount |-> 0, status |-> "PENDING"] },
     transactions |->
        { [transaction_id |-> 1, transaction_reference |-> "T1",
           invoice_id |-> 1, platform_id |-> 1, amount |-> 5,
           status |-> "COMPLETED"] },
     autoinc |-> [clients |-> 2, invoices |-> 3, platforms |-> 6,
                  transactions |-> 2]]

InitStores == {EmptyStore, LoadedStore}

\* a store with three clients: one with a paid and a pending invoice and
\* transactions on two platforms, one with a partly paid invoice, one
\* without invoices
ReportStore ==
    [clients |->
        { [client_id |-> 1, client_code |-> "C1", first_name |-> "Ana",
           last_name |-> "Diaz", email |-> Null, is_active |-> TRUE],
          [client_id |-> 2, client_code |-> "C2", first_name |-> "Eva",
           last_name |-> "Ruiz", email |-> "a@x", is_active |-> TRUE],
          [client_id |-> 3, client_code |-> "C3", first_name |-> "Luz",
           last_name |-> "Mora", email |-> Null, is_active |-> TRUE] },
     invoices |->
        { [invoice_id |-> 1, invoice_number |-> "I1", client_id |-> 1,
           total_amount |-> 7, paid_amount |-> 7, status |-> "PAID"],
          [invoice_id |-> 2, invoice_number |-> "I2", client_id |-> 2,
           total_amount |-> 5, paid_amount |-> 3, status |-> "PARTIAL"],
          [invoice_id |-> 3, invoice_number |-> "I9", client_id |-> 1,
           total_amount |-> 5, paid_amount |-> 0, status |-> "PENDING"] },
     transactions |->
        { [transaction_id |-> 1, transaction_reference |-> "T1",
           invoice_id |-> 1, platform_id |-> 1, amount |-> 5,
           status |-> "COMPLETED"],
          [transaction_id |-> 2, transaction_reference |-> "T2",
           invoice_id |-> 2, platform_id |-> 2, amount |-> 3,
           status |-> "COMPLETED"],
          [transaction_id |-> 3, transaction_reference |-> "T3",
           invoice_id |-> 1, platform_id |-> 2, amount |-> 2,
           status |-> "PENDING"] },
     autoinc |-> [clients |-> 4, invoices |-> 4, platforms |-> 6,
                  transactions |-> 4]]

InitLocals(budget) ==
    /\ dbUp = TRUE
    /\ pc = [p \in Importers |-> "idle"]
    /\ dataLength = [p \in Importers |-> 0]
    /\ row = [p \in Importers |-> BlankRow]
    /\ idx = [p \in Importers |-> 0]
    /\ stats = [p \in Importers |-> ZeroStats]
    /\ res = [p \in Importers |-> NoResult]
    /\ clientResult = [p \in Importers |-> NoClient]
    /\ invoiceResult = [p \in Importers |-> NoInvoice]
    /\ platformId = [p \in Importers |-> Undefined]
    /\ inputsLeft = budget
    /\ queryErrors = [p \in Importers |-> {}]
    /\ outage = [p \in Importers |-> FALSE]
    /\ visited = [p \in Importers |-> <<>>]
    /\ lastRun = [p \in Importers |-> NoRun]
    /\ atStart = [p \in Importers |-> NoSnapshot]
    /\ reqPc = [q \in Requests |-> "idle"]
    /\ reqBody = [q \in Requests |->
                    [client_code |-> "", first_name |-> "", last_name |-> "",
                     email |-> UndefinedText]]
    /\ reqResult = [q \in Requests |-> Undefined]
    /\ reqStatus = [q \in Requests |-> 0]
    /\ report = NoReport
    /\ tx = NoTx

Init ==
    /\ \E s \in InitStores :
         /\ clients = s.clients
         /\ invoices = s.invoices
         /\ transactions = s.transactions
         /\ autoinc = s.autoinc
    /\ platforms = SeedPlatforms
    /\ InitLocals(MaxInputs)

\* the steps of one processCSVData invocation
Import(p, S) ==
    \/ Loop(p, S)
    \/ ClientSelect(p)
    \/ ClientWrite(p)
    \/ InvoiceSelect(p)
    \/ InvoiceWrite(p)
    \/ PlatformSelect(p)
    \/ PlatformInsert(p)
    \/ TransactionSelect(p)
    \/ TransactionWrite(p)
    \/ Respond(p)

ClientIds == 1 .. (1 + MaxInputs)

\* one importer, uploads one after the other, and the administration
Next ==
    \/ \E n \in 0 .. MaxInputs : StartImport(1, n)
    \/ Import(1, Rows)
    \/ \E id \in ClientIds : SoftDelete(id)
    \/ \E id \in ClientIds : HardDelete(id)
    \/ Disconnect
    \/ Reconnect

Spec == Init /\ [][Next]_vars

\* rows that name the same client, invoice and transaction, and a
\* platform that is not seeded
RacingRows ==
    { BaseRow,
      [BaseRow EXCEPT !.first_name = "Bob", !.platform_name = "NewPay"] }

\* two uploads and two POST /api/clients requests at the same time, the
\* storage reachable throughout
NextConc ==
    \/ \E p \in Importers : \E n \in 0 .. MaxInputs : StartImport(p, n)
    \/ \E p \in Importers : Import(p, RacingRows)
    \/ \E q \in Requests : \E body \in Bodies : PostCheck(q, body)
    \/ \E q \in Requests : PostCreate(q)
    \/ \E q \in Requests : PostFetch(q)

\* the seeded store, before any client is known
InitConc ==
    /\ clients = EmptyStore.clients
    /\ invoices = EmptyStore.invoices
    /\ transactions = EmptyStore.transactions
    /\ autoinc = EmptyStore.autoinc
    /\ platforms = SeedPlatforms
    /\ InitLocals(MaxInputs)

SpecConc == InitConc /\ [][NextConc]_vars

\* one upload of one row, over every row of AllRows
InitRow ==
    /\ \E s \in InitStores :
         /\ clients = s.clients
         /\ invoices = s.invoices
         /\ transactions = s.transactions
         /\ autoinc = s.autoinc
    /\ platforms = SeedPlatforms
    /\ InitLocals(1)

NextRow ==
    \/ StartImport(1, 1)
    \/ Import(1, AllRows)
    \/ Disconnect
    \/ Reconnect

SpecRow == InitRow /\ [][NextRow]_vars

\* uploads alone; a step of an invocation that can be taken is taken, as
\* every awaited pool.execute settles
NextImport ==
    \/ \E n \in 0 .. MaxInputs : StartImport(1, n)
    \/ Import(1, Rows)
    \/ Disconnect
    \/ Reconnect

SpecImport == Init /\ [][NextImport]_vars

\* the reports, asked for between POST /api/clients requests and the
\* administration's deletes
InitReports ==
    /\ \E s \in InitStores \cup {ReportStore} :
         /\ clients = s.clients
         /\ invoices = s.invoices
         /\ transactions = s.transactions
         /\ autoinc = s.autoinc
    /\ platforms = SeedPlatforms
    /\ InitLocals(MaxInputs)

NextReports ==
    \/ \E body \in Bodies : PostCheck(1, body)
    \/ PostCreate(1)
    \/ PostFetch(1)
    \/ \E id \in ClientIds : SoftDelete(id)
    \/ \E id \in ClientIds : HardDelete(id)
    \/ TotalPayments
    \/ PendingInvoices
    \/ \E platform \in Filters : TransactionsByPlatform(platform)
    \/ Disconnect
    \/ Reconnect

SpecReports == InitReports /\ [][NextReports]_vars

FairSpec == SpecImport /\ WF_vars(Import(1, Rows))

\* rows that name the same invoice and transaction for two clients
OwnerRows == { BaseRow, [BaseRow EXCEPT !.client_code = "C2"] }

\* uploads of rows that name an invoice for one client or another
NextOwner ==
    \/ \E n \in 0 .. MaxInputs : StartImport(1, n)
    \/ Import(1, OwnerRows)
    \/ Disconnect
    \/ Reconnect

SpecOwner == Init /\ [][NextOwner]_vars

\* the client administration alone: POST /api/clients requests, two at a
\* time, and the two deletions
NextClients ==
    \/ \E q \in Requests : \E body \in Bodies : PostCheck(q, body)
    \/ \E q \in Requests : PostCreate(q)
    \/ \E q \in Requests : PostFetch(q)
    \/ \E id \in ClientIds : SoftDelete(id)
    \/ \E id \in ClientIds : HardDelete(id)
    \/ Disconnect
    \/ Reconnect

SpecClients == InitReports /\ [][NextClients]_vars

\* calls of executeTransaction, one after the other, between the
\* administration's deletes and outages
NextTransaction ==
    \/ \E queries \in Queries : TxGetConnection(queries)
    \/ TxBegin
    \/ TxExecute
    \/ TxCommit
    \/ TxRollback
    \/ TxReturn
    \/ \E id \in ClientIds : SoftDelete(id)
    \/ \E id \in ClientIds : HardDelete(id)
    \/ Disconnect
    \/ Reconnect

SpecTransaction == Init /\ [][NextTransaction]_vars

(***************************************************************************)
(* Properties.                                                             *)
(***************************************************************************)
\* the row passes validateRow
Valid(r) == validateRow(r, 0) = <<>>

\* the store holds the client, the invoice and the transaction of row r,
\* linked to each other and to the platform the row names
Stored(r) ==
    \E c \in clients :
      /\ c.client_code = r.client_code
      /\ c.first_name = r.first_name
      /\ c.last_name = r.last_name
      /\ \E i \in invoices :
           /\ i.invoice_number = r.invoice_number
           /\ i.client_id = c.client_id
           /\ \E t \in transactions, q \in platforms :
                /\ t.transaction_reference = r.transaction_reference
                /\ t.invoice_id = i.invoice_id
                /\ q.platform_name = r.platform_name
                /\ t.platform_id = q.platform_id

RowOfFirstImporterStored == Stored(row[1])

\* C1: when processCSVData has taken a valid row through its last stage
\* without recording an error, the store holds a client with the row's code
\* and names, an invoice with the row's number owned by that client, and a
\* transaction with the row's reference owned by that invoice and by the
\* platform the row names.
C1_ValidRowStored ==
    [][(/\ pc[1] = "transactionWrite"
        /\ pc'[1] = "loop"
        /\ stats'[1].errors = stats[1].errors)
       => RowOfFirstImporterStored']_vars

\* the entities of the store with the natural keys of row r
InvoicesOf(r) == { i \in invoices : i.invoice_number = r.invoice_number }

TransactionsOf(r) ==
    { t \in transactions :
        t.transaction_reference = r.transaction_reference }

\* C2: when the same valid row has been imported in two successive batches,
\* with the storage reachable, the store holds exactly one client, one
\* invoice and one transaction with the row's natural keys, and the three
\* tables are what the first pass left.
C2_SecondPassIdempotent ==
    (/\ pc[1] = "done"
     /\ dataLength[1] = 1
     /\ ~outage[1]
     /\ Valid(row[1])
     /\ lastRun[1].data = <<row[1]>>)
    => /\ Cardinality(ClientsOf(row[1])) = 1
       /\ Cardinality(InvoicesOf(row[1])) = 1
       /\ Cardinality(TransactionsOf(row[1])) = 1
       /\ clients = atStart[1].clients
       /\ invoices = atStart[1].invoices
       /\ transactions = atStart[1].transactions

AllCreated(st) ==
    /\ st.clients_created = 1 /\ st.clients_updated = 0
    /\ st.invoices_created = 1 /\ st.invoices_updated = 0
    /\ st.transactions_created = 1 /\ st.transactions_updated = 0
    /\ st.errors = <<>>

AllUpdated(st) ==
    /\ st.clients_created = 0 /\ st.clients_updated = 1
    /\ st.invoices_created = 0 /\ st.invoices_updated = 1
    /\ st.transactions_created = 0 /\ st.transactions_updated = 1

\* the store t holds none of the natural keys of row r
KeysAbsent(r, t) ==
    /\ \A c \in t.clients : c.client_code # r.client_code
    /\ \A i \in t.invoices : i.invoice_number # r.invoice_number
    /\ \A u \in t.transactions :
         u.transaction_reference # r.transaction_reference

\* C3: the import of one valid row into a store that holds none of its
\* natural keys returns created = 1 for client, invoice and transaction,
\* updated = 0 and no errors; the import of the identical row right after
\* returns updated = 1 and created = 0 for the three.
C3_CreatedThenUpdated ==
    (/\ pc[1] = "done"
     /\ dataLength[1] = 1
     /\ ~outage[1]
     /\ Valid(row[1]))
    => /\ KeysAbsent(row[1], atStart[1]) => AllCreated(stats[1])
       /\ (lastRun[1].data = <<row[1]>> /\ AllCreated(lastRun[1].stats))
          => AllUpdated(stats[1])

Counters(st) ==
    <<st.clients_processed, st.clients_created, st.clients_updated,
      st.invoices_processed, st.invoices_created, st.invoices_updated,
      st.transactions_processed, st.transactions_created,
      st.transactions_updated>>

\* C4: the step of processCSVData that reads a row with at least one
\* validation defect leaves the four tables and the nine counters as they
\* were, appends exactly the row's defects to stats.errors and moves on to
\* the next row, so that no storage operation is issued for the row.
C4_DefectiveRowSkipped ==
    [][(/\ pc[1] = "loop"
        /\ visited'[1] # visited[1]
        /\ ~Valid(row'[1]))
       => /\ UNCHANGED store
          /\ Counters(stats'[1]) = Counters(stats[1])
          /\ stats'[1].errors
               = stats[1].errors \o validateRow(row'[1], idx[1] + 2)
          /\ pc'[1] = "loop"
          /\ idx'[1] = idx[1] + 1]_vars

\* C4 witness: a batch in which a valid row went through the resolvers and
\* a row with two defects was skipped after it
C4_Witness ==
    /\ pc[1] = "loop"
    /\ idx[1] = 2
    /\ stats[1].clients_processed = 1
    /\ Len(stats[1].errors) = 2
    /\ ~Valid(row[1])

\* C5: when processCSVData returns, every row during which a storage
\* operation failed has a message "Row <n>: ..." in stats.errors.
C5_StorageFailureReported ==
    pc[1] = "done"
    => \A n \in queryErrors[1] :
         \E k \in 1 .. Len(stats[1].errors) : stats[1].errors[k].row = n

\* C6: every invoice refers to an existing client, and every transaction
\* to an existing invoice and an existing platform.
C6_ReferencesExist ==
    /\ \A i \in invoices : \E c \in clients : c.client_id = i.client_id
    /\ \A t \in transactions :
         /\ \E i \in invoices : i.invoice_id = t.invoice_id
         /\ \E q \in platforms : q.platform_id = t.platform_id

\* C6 witness: the client that owned the invoices and the transaction was
\* hard-deleted, and a batch has gone through the resolvers since
C6_Witness ==
    /\ autoinc.invoices > 1
    /\ invoices = {}
    /\ transactions = {}
    /\ clients # {}
    /\ pc[1] = "done"
    /\ stats[1].transactions_processed > 0

\* C7: no two clients share a client_code, no two invoices an
\* invoice_number, no two transactions a transaction_reference and no two
\* platforms a platform_name.
C7_NaturalKeysUnique ==
    /\ \A c, d \in clients : c.client_code = d.client_code => c = d
    /\ \A i, j \in invoices : i.invoice_number = j.invoice_number => i = j
    /\ \A t, u \in transactions :
         t.transaction_reference = u.transaction_reference => t = u
    /\ \A q, r \in platforms : q.platform_name = r.platform_name => q = r

\* C7 witness: two invocations started on a store without clients, looked
\* up the same absent client_code and platform_name and both issued their
\* INSERTs
C7_Witness ==
    /\ pc[1] = "transactionSelect"
    /\ pc[2] = "transactionSelect"
    /\ row[1].client_code = row[2].client_code
    /\ row[1].platform_name = "NewPay"
    /\ row[2].platform_name = "NewPay"
    /\ atStart[1].clients = {}
    /\ atStart[2].clients = {}
    /\ Cardinality(ClientsOf(row[1])) = 1

\* C8: when an invocation has looked up a client_code and found it absent,
\* and another request inserts that client_code before the invocation's own
\* INSERT, which the unique constraint then rejects, the invocation records
\* an error for the row and does not count the client as created.
C8_RejectedInsertReported ==
    [][\A p \in Importers :
         (/\ pc[p] = "clientWrite"
          /\ pc'[p] # "clientWrite"
          /\ dbUp
          /\ res[p].success
          /\ res[p].data = {}
          /\ ~UniqueClientCode(row[p].client_code))
         => /\ stats'[p].clients_created = stats[p].clients_created
            /\ Len(stats'[p].errors) > Len(stats[p].errors)]_vars

\* the indices 0 .. n-1 in order
Indices(n) == [k \in 1 .. n |-> k - 1]

\* C9: every invocation of processCSVData reaches its return, whatever the
\* rows and whatever storage operations fail, and has then visited every
\* index of its input exactly once, in order.
C9_EveryRowVisited ==
    /\ [](pc[1] = "done" => visited[1] = Indices(dataLength[1]))
    /\ (pc[1] = "loop") ~> (pc[1] = "done")

\* C9 witness: an invocation returned after a row with a validation defect
\* and a row during which the storage was unreachable
C9_Witness ==
    /\ pc[1] = "done"
    /\ dataLength[1] = 2
    /\ stats[1].errors # <<>>
    /\ outage[1]
    /\ stats[1].transactions_processed = 1

\* the row lacks one of the six required cells
Lacks(r) ==
    \/ r.client_code = ""
    \/ r.first_name = ""
    \/ r.last_name = ""
    \/ r.invoice_number = ""
    \/ r.transaction_reference = ""
    \/ r.platform_name = ""

\* the invocation of importer 1 has written nothing
NoWrites ==
    /\ Snapshot = atStart[1]
    /\ Counters(stats[1]) = Counters(ZeroStats)
    /\ pc[1] \in {"loop", "done", "idle"}

\* C10 as stated: a row that lacks a required cell yields exactly one
\* validation defect and no entity write.
C10_ExactlyOneDefect ==
    (visited[1] # <<>> /\ Lacks(row[1]))
    => Len(stats[1].errors) = 1 /\ NoWrites

\* C10: a row that lacks a required cell yields at least one validation
\* defect and no entity write.
C10_AtLeastOneDefect ==
    (visited[1] # <<>> /\ Lacks(row[1]))
    => Len(stats[1].errors) >= 1 /\ NoWrites

\* C10 witness: a row that lacks a required cell was read and left more
\* than one defect
C10_Witness ==
    /\ pc[1] = "done"
    /\ Lacks(row[1])
    /\ Len(stats[1].errors) > 1

\* decimal notation of a number, as far as the cells of the rows go
IsNumber(s) == s # <<>> /\ \A k \in 1 .. Len(s) : s[k] \in DigitChars

\* the row has one of the defects the validation is there to find
Defective(r) ==
    \/ Lacks(r)
    \/ r.total_amount # <<>> /\ ~IsNumber(r.total_amount)
    \/ r.paid_amount # <<>> /\ ~IsNumber(r.paid_amount)
    \/ r.transaction_amount # <<>> /\ ~IsNumber(r.transaction_amount)

\* C11: validateRow returns a non-empty list for the row processCSVData has
\* read if and only if the row lacks client_code, first_name, last_name,
\* invoice_number, transaction_reference or platform_name, or one of its
\* three amounts is present and not a number.
C11_DefectsIffDefective ==
    visited[1] # <<>>
    => (Len(validateRow(row[1], 2)) > 0 <=> Defective(row[1]))

\* every client is still there, with its client_id, client_code and
\* is_active
ClientsKept ==
    \A c \in clients :
      \E d \in clients' :
        /\ d.client_id = c.client_id
        /\ d.client_code = c.client_code
        /\ d.is_active = c.is_active

\* C12: no step of processCSVData removes a client or changes a client's
\* client_id, client_code or is_active, so that a soft-deleted client whose
\* code a row names stays inactive.
C12_ClientsKeptByImport ==
    [][Import(1, Rows) => ClientsKept]_vars

\* C12 witness: the row names the code of a client that was inactive when
\* the invocation began, and processClient has run for it
C12_Witness ==
    /\ pc[1] = "invoiceSelect"
    /\ stats[1].clients_processed = 1
    /\ \E c \in clients :
         /\ ~c.is_active
         /\ c.client_code = row[1].client_code
         /\ c \in atStart[1].clients

\* the total-payments report was answered with its rows
TotalPaymentsAnswered ==
    report.kind = "total-payments" /\ report.status = 200

\* the COMPLETED transactions of the store st that belong to client c
PaidBy(st, c) ==
    { t \in st.transactions :
        /\ t.status = "COMPLETED"
        /\ \E i \in st.invoices :
             i.invoice_id = t.invoice_id /\ i.client_id = c.client_id }

\* the report lists client c with total_paid = 0
ListedWithZero(c) ==
    \E r \in report.data :
      r.client_id = c.client_id /\ parseFloat(r.total_paid) = Num(0)

\* C13 as stated: in the total-payments report the sum of total_paid over
\* the returned clients equals the sum of the amounts of all COMPLETED
\* transactions of the store, and every client without a COMPLETED
\* transaction is returned with total_paid = 0.
C13_SumOverAllClients ==
    TotalPaymentsAnswered
    => /\ SumPaid(report.data)
            = SumAmounts({ t \in report.at.transactions :
                             t.status = "COMPLETED" })
       /\ \A c \in report.at.clients :
            PaidBy(report.at, c) = {} => ListedWithZero(c)

\* C13: in the total-payments report the sum of total_paid over the
\* returned clients equals the sum of the amounts of the COMPLETED
\* transactions of the active clients' invoices, and every active client
\* without a COMPLETED transaction is returned with total_paid = 0.
C13_SumOverActiveClients ==
    TotalPaymentsAnswered
    => /\ SumPaid(report.data)
            = SumAmounts(UNION { PaidBy(report.at, c) :
                                   c \in { d \in report.at.clients :
                                             d.is_active } })
       /\ \A c \in report.at.clients :
            (c.is_active /\ PaidBy(report.at, c) = {}) => ListedWithZero(c)

\* C13 witness: a report over a store in which a soft-deleted client has a
\* COMPLETED transaction, an active client has one too and another active
\* client has none
C13_Witness ==
    /\ TotalPaymentsAnswered
    /\ \E c \in report.at.clients :
         ~c.is_active /\ PaidBy(report.at, c) # {}
    /\ \E c \in report.at.clients :
         c.is_active /\ PaidBy(report.at, c) # {}
    /\ \E c \in report.at.clients :
         c.is_active /\ PaidBy(report.at, c) = {}

\* C14: a pending-invoices report asked for while the storage is reachable
\* holds no invoice whose status is PAID and holds every invoice of the
\* store whose status is PENDING, PARTIAL or OVERDUE.
C14_PendingInvoicesListed ==
    (report.kind = "pending-invoices" /\ report.up)
    => /\ report.status = 200
       /\ \A r \in report.data : r.status # "PAID"
       /\ \A i \in report.at.invoices :
            i.status \in {"PENDING", "PARTIAL", "OVERDUE"}
            => \E r \in report.data : r.invoice_id = i.invoice_id

\* C15: a transactions-by-platform report asked for while the storage is
\* reachable holds exactly the transactions of the store whose invoice
\* belongs to an active client and, when a platform is given, whose
\* platform has that name.
C15_TransactionsByPlatformListed ==
    (report.kind = "transactions-by-platform" /\ report.up)
    => /\ report.status = 200
       /\ { r.transaction_id : r \in report.data }
            = { t.transaction_id :
                  t \in { u \in report.at.transactions :
                            /\ \E i \in report.at.invoices,
                                  c \in report.at.clients :
                                 /\ i.invoice_id = u.invoice_id
                                 /\ c.client_id = i.client_id
                                 /\ c.is_active
                            /\ report.platform # ""
                               => \E q \in report.at.platforms :
                                    /\ q.platform_id = u.platform_id
                                    /\ q.platform_name = report.platform } }

\* C16: in the summary of the total-payments report,
\* average_payment_per_client times total_clients is total_amount_paid when
\* a client is returned, without a division by zero; when none is returned
\* the average, the counts and the sum are 0.
C16_AverageDefined ==
    TotalPaymentsAnswered
    => LET summary == report.summary
           average == summary.average_payment_per_client
       IN  /\ summary.total_clients = Cardinality(report.data)
           /\ summary.total_amount_paid = SumPaid(report.data)
           /\ IF report.data # {}
              THEN /\ IsNum(average)
                   /\ average.den # 0
                   /\ average.num * summary.total_clients
                        = summary.total_amount_paid * average.den
              ELSE /\ average = Num(0)
                   /\ summary.total_clients = 0
                   /\ summary.total_amount_paid = 0
                   /\ report.count = 0

\* C16 witness: a report over a store whose clients are all soft-deleted,
\* so that the result set is empty
C16_Witness ==
    /\ TotalPaymentsAnswered
    /\ report.data = {}
    /\ report.at.clients # {}
    /\ report.at.transactions # {}

\* C17: every message processCSVData records while it is at input index i
\* carries the row number i + 2, the first data row being row 2.
C17_RowNumberIsIndexPlusTwo ==
    [][\A k \in (Len(stats[1].errors) + 1) .. Len(stats'[1].errors) :
         stats'[1].errors[k].row = idx[1] + 2]_vars

\* C17 witness: messages were recorded for the first and for the second
\* data row
C17_Witness ==
    /\ pc[1] = "done"
    /\ \E k \in 1 .. Len(stats[1].errors) : stats[1].errors[k].row = 2
    /\ \E k \in 1 .. Len(stats[1].errors) : stats[1].errors[k].row = 3

\* C18: when processClient returns with the storage reachable, created is
\* false exactly when a client with the row's client_code was in the store
\* before the call, and clientId is the client_id of the stored client with
\* that client_code.
C18_ResolverResult ==
    [][(/\ pc[1] = "clientWrite"
        /\ pc'[1] = "invoiceSelect"
        /\ dbUp
        /\ ~outage'[1])
       => /\ clientResult'[1].created = (ClientsOf(row[1]) = {})
          /\ \E c \in clients' :
               /\ c.client_code = row[1].client_code
               /\ clientResult'[1].clientId = Num(c.client_id)]_vars

\* every entity is still there, under its primary key
EntitiesKept ==
    /\ \A c \in clients : \E d \in clients' : d.client_id = c.client_id
    /\ \A i \in invoices : \E j \in invoices' : j.invoice_id = i.invoice_id
    /\ \A q \in platforms :
         \E r \in platforms' : r.platform_id = q.platform_id
    /\ \A t \in transactions :
         \E u \in transactions' : u.transaction_id = t.transaction_id

\* C19: no step of processCSVData takes an entity out of the store: what
\* an earlier stage of a row has written stays when a later stage of the
\* row fails.
C19_NoRollback ==
    [][Import(1, Rows) => EntitiesKept]_vars

\* C19 witness: the invocation inserted the client of its last row, the
\* invoice stage of that row failed with the storage reachable, and the
\* client is in the store without the invoice
C19_Witness ==
    /\ pc[1] = "done"
    /\ ~outage[1]
    /\ idx[1] + 1 \in queryErrors[1]
    /\ InvoicesOf(row[1]) = {}
    /\ \E c \in clients :
         c.client_code = row[1].client_code /\ c \notin atStart[1].clients

PlatformsOf(r) == { q \in platforms : q.platform_name = r.platform_name }

\* C21: when the platform resolution of processTransaction is over, with
\* the storage reachable throughout, a platform with the row's name is in
\* the store, of type DIGITAL_WALLET if it was not there before, every
\* platform that was there is unchanged, and platformId is the id of the
\* platform with the row's name.
C21_PlatformResolved ==
    [][(/\ pc[1] \in {"platformSelect", "platformInsert"}
        /\ pc'[1] = "transactionSelect"
        /\ dbUp
        /\ ~outage'[1])
       => /\ platforms \subseteq platforms'
          /\ \E q \in platforms' :
               /\ q.platform_name = row[1].platform_name
               /\ PlatformsOf(row[1]) = {} => q.platform_type = "DIGITAL_WALLET"
               /\ platformId'[1] = Num(q.platform_id)]_vars

\* processed = created + updated for the three entities
Consistent(st) ==
    /\ st.clients_processed = st.clients_created + st.clients_updated
    /\ st.invoices_processed = st.invoices_created + st.invoices_updated
    /\ st.transactions_processed
         = st.transactions_created + st.transactions_updated

\* C22: whenever processCSVData is between rows and when it returns, each
\* processed counter is the sum of its created and updated counters, and
\* each resolver stage that completes adds exactly 1 to its processed
\* counter and leaves the other two processed counters alone.
C22_CountersConsistent ==
    /\ [](pc[1] \in {"loop", "done"} => Consistent(stats[1]))
    /\ [][/\ (pc[1] = "clientWrite" /\ pc'[1] = "invoiceSelect")
             => /\ stats'[1].clients_processed
                     = stats[1].clients_processed + 1
                /\ stats'[1].invoices_processed = stats[1].invoices_processed
                /\ stats'[1].transactions_processed
                     = stats[1].transactions_processed
          /\ (pc[1] = "invoiceWrite" /\ pc'[1] = "platformSelect")
             => /\ stats'[1].invoices_processed
                     = stats[1].invoices_processed + 1
                /\ stats'[1].clients_processed = stats[1].clients_processed
                /\ stats'[1].transactions_processed
                     = stats[1].transactions_processed
          /\ (pc[1] = "transactionWrite" /\ pc'[1] = "loop")
             => /\ stats'[1].transactions_processed
                     = stats[1].transactions_processed + 1
                /\ stats'[1].clients_processed = stats[1].clients_processed
                /\ stats'[1].invoices_processed
                     = stats[1].invoices_processed]_vars

\* C22 witness: an invocation returned after two rows went through the
\* three resolvers
C22_Witness ==
    /\ pc[1] = "done"
    /\ stats[1].clients_processed = 2
    /\ stats[1].invoices_processed = 2
    /\ stats[1].transactions_processed = 2

\* the storage operations of one row, in the order of the code
Stages ==
    <<"clientSelect", "clientWrite", "invoiceSelect", "invoiceWrite",
      "platformSelect", "platformInsert", "transactionSelect",
      "transactionWrite">>

Stage(position) == CHOOSE k \in 1 .. Len(Stages) : Stages[k] = position

InStage(position) == \E k \in 1 .. Len(Stages) : Stages[k] = position

\* C23: within one invocation a storage operation is followed by a later
\* operation of the same row or by the end of the row; the client stage
\* begins a row, the invoice stage starts only when the client stage has
\* completed, the platform lookup only when the invoice stage has, the
\* transaction stage only when the platform stage has; and the loop goes to
\* the next row only from the last operation of the row (or from a
\* validation defect, or from a caught error).
C23_StagesInOrder ==
    [][/\ (InStage(pc[1]) /\ pc'[1] # pc[1])
          => \/ /\ InStage(pc'[1])
                /\ Stage(pc'[1]) > Stage(pc[1])
                /\ idx'[1] = idx[1]
                /\ row'[1] = row[1]
             \/ /\ pc'[1] = "loop"
                /\ idx'[1] = idx[1] + 1
       /\ pc'[1] # pc[1]
          => /\ pc'[1] = "clientSelect" => pc[1] = "loop"
             /\ pc'[1] = "clientWrite" => pc[1] = "clientSelect"
             /\ pc'[1] = "invoiceSelect" => pc[1] = "clientWrite"
             /\ pc'[1] = "invoiceWrite" => pc[1] = "invoiceSelect"
             /\ pc'[1] = "platformSelect" => pc[1] = "invoiceWrite"
             /\ pc'[1] = "platformInsert" => pc[1] = "platformSelect"
             /\ pc'[1] = "transactionSelect"
                => pc[1] \in {"platformSelect", "platformInsert"}
             /\ pc'[1] = "transactionWrite" => pc[1] = "transactionSelect"
       /\ (pc[1] \notin {"idle", "done"} /\ idx'[1] = idx[1] + 1)
          => /\ pc'[1] = "loop"
             /\ pc[1] \in {"loop", "clientWrite", "invoiceWrite",
                            "platformSelect", "transactionWrite"}]_vars

\* C23 witness: the second row of a batch is at its last storage operation
\* after the first row went through all of its operations
C23_Witness ==
    /\ pc[1] = "transactionWrite"
    /\ idx[1] = 1
    /\ stats[1].transactions_processed = 1
    /\ stats[1].invoices_processed = 2

\* C24: a call of executeTransaction that took a connection has released
\* it exactly once when it ends; when every statement and the commit were
\* accepted the result is success and the table holds a client for every
\* statement; when a statement was rejected the table is what it was,
\* nothing the call wrote is in it, and the result is a failure value; no
\* step before the commit changes the table.
C24_AllOrNothing ==
    [][/\ (tx.pc # "returned" /\ tx'.pc = "returned" /\ tx'.taken = 1)
          => /\ tx'.released = 1
             /\ tx'.outcome = "success"
                => /\ ~tx'.failed
                   /\ Len(tx'.results) = Len(tx'.queries)
                   /\ clients \subseteq clients'
                   /\ \A k \in 1 .. Len(tx'.queries) :
                        \E c \in clients' \ clients :
                          /\ c.client_code = tx'.queries[k]
                          /\ Num(c.client_id) = tx'.results[k].insertId
             /\ tx'.failed
                => /\ clients' = clients
                   /\ tx'.outcome = "failure"
       /\ (tx.pc \in {"begin", "execute", "rollback"} /\ tx' # tx)
          => clients' = clients]_vars

\* the invoices client id owns, and the transactions of those invoices
OwnedInvoices(id) == { i \in invoices : i.client_id = id }

OwnedTransactions(id) ==
    { t \in transactions :
        \E i \in OwnedInvoices(id) : i.invoice_id = t.invoice_id }

ErrorRows(st) == { st.errors[k].row : k \in 1 .. Len(st.errors) }

\* C26: when processCSVData returns, the number of rows is
\* transactions_processed plus the number of distinct row numbers in
\* stats.errors; a row is counted in transactions_processed only when
\* stats.errors holds no message with its row number, and a message is
\* recorded only for the row the loop is at, in a step that does not count
\* the row.
C26_RowsAccounted ==
    /\ [](pc[1] = "done"
           => dataLength[1]
                = stats[1].transactions_processed
                  + Cardinality(ErrorRows(stats[1])))
    /\ [][/\ stats'[1].transactions_processed
               > stats[1].transactions_processed
             => /\ stats'[1].transactions_processed
                     = stats[1].transactions_processed + 1
                /\ idx[1] + 2 \notin ErrorRows(stats'[1])
                /\ idx'[1] = idx[1] + 1
          /\ Len(stats'[1].errors) > Len(stats[1].errors)
             => /\ ErrorRows(stats'[1]) = ErrorRows(stats[1]) \cup {idx[1] + 2}
                /\ stats'[1].transactions_processed
                     = stats[1].transactions_processed
                /\ idx'[1] = idx[1] + 1]_vars

\* C26 witness: an invocation returned after a row with two defects and a
\* row that went through the three resolvers while a storage operation
\* failed
C26_Witness ==
    /\ pc[1] = "done"
    /\ dataLength[1] = 2
    /\ Len(stats[1].errors) = 2
    /\ Cardinality(ErrorRows(stats[1])) = 1
    /\ stats[1].transactions_processed = 1
    /\ queryErrors[1] # {}

\* a value executeQuery returns: the rows of a statement that succeeded,
\* or the message of one that failed
Returned(result) ==
    \/ DOMAIN result = {"success", "data"} /\ result.success
    \/ DOMAIN result = {"success", "error"} /\ ~result.success

\* C27: what a resolver holds after an awaited executeQuery is a value,
\* {success: true, data} or {success: false, error}, with success false
\* whenever the storage was unreachable; the step in which a statement
\* fails records no message in stats.errors and does not end the row, the
\* failure being visible in the returned success field alone.
C27_ExecuteQueryReturns ==
    /\ [](Returned(res[1]))
    /\ [][/\ (pc[1] \in {"clientSelect", "invoiceSelect",
                          "transactionSelect"}
              /\ pc'[1] # pc[1])
             => res'[1].success = dbUp
          /\ queryErrors'[1] \ queryErrors[1] # {}
             => /\ stats'[1].errors = stats[1].errors
                /\ InStage(pc'[1]) \/ pc[1] = "transactionWrite"]_vars

\* C27 witness: the SELECT of processInvoice failed and the resolver holds
\* the failure as a value, no message being recorded for the row
C27_Witness ==
    /\ pc[1] = "invoiceWrite"
    /\ ~res[1].success
    /\ RowNumber(1) \in queryErrors[1]
    /\ stats[1].errors = <<>>

\* both POST /api/clients requests were sent with the same client_code and
\* have been answered
BothAnswered ==
    /\ \A q \in Requests : reqPc[q] = "idle" /\ reqStatus[q] # 0
    /\ reqBody[1].client_code = reqBody[2].client_code

\* C28: a POST /api/clients whose client_code is in the table, with the
\* storage reachable, is answered with 409 and leaves the table as it was;
\* when two POST requests with the same new client_code have been answered,
\* whatever their interleaving, the table holds exactly one client with
\* that code and at most one of them was answered with 201.
C28_OneClientPerCode ==
    /\ [](BothAnswered
           => /\ Cardinality({ c \in clients :
                                 c.client_code = reqBody[1].client_code }) = 1
              /\ ~(reqStatus[1] = 201 /\ reqStatus[2] = 201))
    /\ [][\A q \in Requests, body \in Bodies :
             (/\ PostCheck(q, body)
              /\ dbUp
              /\ \E c \in clients : c.client_code = body.client_code)
             => /\ reqStatus'[q] = 409
                /\ reqPc'[q] = "idle"
                /\ clients' = clients]_vars

\* C29: when processInvoice has run for a row whose invoice_number is in
\* the store, the invoice with that number has the invoice_id and the
\* client_id it had before, whichever client the row names.
C29_OwnerKept ==
    [][(pc[1] = "invoiceWrite" /\ pc'[1] # "invoiceWrite")
       => \A i \in InvoicesOf(row[1]) :
            \E j \in invoices' :
              /\ j.invoice_number = i.invoice_number
              /\ j.invoice_id = i.invoice_id
              /\ j.client_id = i.client_id]_vars

\* C29 witness: processInvoice has run, with the storage reachable, for a
\* row that names a stored client and an invoice another client owns
C29_Witness ==
    /\ pc[1] = "platformSelect"
    /\ ~outage[1]
    /\ ClientsOf(row[1]) # {}
    /\ \E i \in InvoicesOf(row[1]), c \in clients :
         /\ c.client_id = i.client_id
         /\ c.client_code # row[1].client_code

\* C30: the amounts processInvoice and processTransaction hand to their
\* statement, parseFloat of the cells of a row that passed validateRow,
\* are numbers.
C30_AmountsNumeric ==
    /\ pc[1] = "invoiceWrite"
       => /\ IsNum(parseFloat(row[1].total_amount))
          /\ IsNum(parseFloat(row[1].paid_amount))
    /\ pc[1] = "transactionWrite"
       => IsNum(parseFloat(row[1].transaction_amount))

====
